---------------------------- MODULE Spec2Model ----------------------------
(***************************************************************************)
(* Model of natsst/finance-python-projects: the comparable-companies tool  *)
(* (01_comps/app.py, 01_comps/src/compute_multiples.py) and the DCF tool    *)
(* (02_dcf/app.py, 02_dcf/src/*.py).                                        *)
(*                                                                         *)
(* Numbers.  The programs compute in IEEE doubles (pandas/numpy).  The     *)
(* model computes in exact rational arithmetic extended with the float     *)
(* non-numbers NaN, +inf and -inf; rounding is not modelled.  A rational   *)
(* is sign * n / d with n and d naturals of arbitrary size, kept as        *)
(* little-endian sequences of limbs (TLC's integers are 32 bit).           *)
(*                                                                         *)
(* A value a Python function binds to a local variable and reads several   *)
(* times is a parameter of a helper operator here, so that it is computed  *)
(* once.                                                                   *)
(***************************************************************************)
EXTENDS Integers, Sequences, FiniteSets, TLC

(***************************************************************************)
(* Arbitrary-size naturals                                                 *)
(***************************************************************************)
Base == 10 * 10 * 10

Limb(a, i) == IF i <= Len(a) THEN a[i] ELSE 0

Min(x, y) == IF x < y THEN x ELSE y
Max(x, y) == IF x < y THEN y ELSE x

RECURSIVE BTrim(_)
BTrim(a) ==
  IF a = <<>> THEN a
  ELSE IF a[Len(a)] = 0 THEN BTrim(SubSeq(a, 1, Len(a) - 1)) ELSE a

RECURSIVE BFromInt(_)
BFromInt(n) == IF n = 0 THEN <<>> ELSE <<n % Base>> \o BFromInt(n \div Base)

RECURSIVE BAddC(_, _, _, _)
BAddC(a, b, i, c) ==
  IF i > Len(a) /\ i > Len(b)
  THEN (IF c = 0 THEN <<>> ELSE <<c>>)
  ELSE <<(Limb(a, i) + Limb(b, i) + c) % Base>>
       \o BAddC(a, b, i + 1, (Limb(a, i) + Limb(b, i) + c) \div Base)

BAdd(a, b) == BAddC(a, b, 1, 0)

RECURSIVE BSubC(_, _, _, _)
BSubC(a, b, i, br) ==
  IF i > Len(a) THEN <<>>
  ELSE IF a[i] - Limb(b, i) - br < 0
       THEN <<a[i] - Limb(b, i) - br + Base>> \o BSubC(a, b, i + 1, 1)
       ELSE <<a[i] - Limb(b, i) - br>> \o BSubC(a, b, i + 1, 0)

\* a - b for a >= b
BSub(a, b) == BTrim(BSubC(a, b, 1, 0))

RECURSIVE BCmpAt(_, _, _)
BCmpAt(a, b, i) ==
  IF i = 0 THEN 0
  ELSE IF a[i] # b[i] THEN (IF a[i] < b[i] THEN -1 ELSE 1)
  ELSE BCmpAt(a, b, i - 1)

BCmp(a, b) ==
  IF Len(a) # Len(b) THEN (IF Len(a) < Len(b) THEN -1 ELSE 1)
  ELSE BCmpAt(a, b, Len(a))

\* the sum of a[i] * b[k + 1 - i] over i from i to hi
RECURSIVE ConvAt(_, _, _, _, _)
ConvAt(a, b, k, i, hi) ==
  IF i > hi THEN 0 ELSE a[i] * b[k + 1 - i] + ConvAt(a, b, k, i + 1, hi)

\* the limb products of a * b by position, carries not yet taken
Conv(a, b) ==
  [k \in 1..(Len(a) + Len(b) - 1) |->
     ConvAt(a, b, k, Max(1, k + 1 - Len(b)), Min(k, Len(a)))] \o <<>>

RECURSIVE BCarry(_, _, _)
BCarry(cs, i, c) ==
  IF i > Len(cs) THEN BFromInt(c)
  ELSE <<(cs[i] + c) % Base>> \o BCarry(cs, i + 1, (cs[i] + c) \div Base)

BOne == <<1>>

BMul(a, b) ==
  IF a = <<>> \/ b = <<>> THEN <<>>
  ELSE IF a = BOne THEN b
  ELSE IF b = BOne THEN a
  ELSE BCarry(Conv(a, b), 1, 0)

\* a \div k for a small k that divides a, from the top limb down with the
\* remainder r carried
RECURSIVE BDivSmallAt(_, _, _, _)
BDivSmallAt(a, k, i, r) ==
  IF i = 0 THEN <<>>
  ELSE BDivSmallAt(a, k, i - 1, (r * Base + a[i]) % k)
       \o <<(r * Base + a[i]) \div k>>

BDivSmall(a, k) == BTrim(BDivSmallAt(a, k, Len(a), 0))

\* a natural of at most three limbs as an integer
BSmall(a) == Len(a) <= 3
BToInt(a) == Limb(a, 1) + Base * Limb(a, 2) + Base * Base * Limb(a, 3)

RECURSIVE Gcd(_, _)
Gcd(a, b) == IF b = 0 THEN a ELSE Gcd(b, a % b)

(***************************************************************************)
(* Floats: k = "num" (s * n / d), "nan", or "inf" (s = 1 or -1)            *)
(***************************************************************************)
NaN == [k |-> "nan", s |-> 0, n |-> <<>>, d |-> BOne]
Inf(sg) == [k |-> "inf", s |-> sg, n |-> <<>>, d |-> BOne]
Zero == [k |-> "num", s |-> 0, n |-> <<>>, d |-> BOne]

IsNaN(x) == x.k = "nan"
IsInf(x) == x.k = "inf"
IsNum(x) == x.k = "num"

\* sg * a / b with the common factor g taken out
Lowest(sg, a, b, g) ==
  [k |-> "num", s |-> sg, n |-> BFromInt(a \div g), d |-> BFromInt(b \div g)]

\* sg * nn / dd, in lowest terms when both fit in an integer
Settle(sg, nn, dd) ==
  IF dd # BOne /\ BSmall(nn) /\ BSmall(dd)
  THEN Lowest(sg, BToInt(nn), BToInt(dd), Gcd(BToInt(nn), BToInt(dd)))
  ELSE [k |-> "num", s |-> sg, n |-> nn, d |-> dd]

\* a power of 2 or of 5 that divides both x and y, the lowest limbs of a
\* numerator and a denominator; 1 when neither 2 nor 5 does
CommonFactor(x, y) ==
  IF x % 125 = 0 /\ y % 125 = 0 THEN 125
  ELSE IF x % 8 = 0 /\ y % 8 = 0 THEN 8
  ELSE IF x % 25 = 0 /\ y % 25 = 0 THEN 25
  ELSE IF x % 4 = 0 /\ y % 4 = 0 THEN 4
  ELSE IF x % 5 = 0 /\ y % 5 = 0 THEN 5
  ELSE IF x % 2 = 0 /\ y % 2 = 0 THEN 2
  ELSE 1

\* sg * nn / dd with the common powers of 2 and 5 taken out
RECURSIVE Strip(_, _, _)
StripBy(sg, nn, dd, f) ==
  IF f = 1 THEN Settle(sg, nn, dd)
  ELSE Strip(sg, BDivSmall(nn, f), BDivSmall(dd, f))

Strip(sg, nn, dd) ==
  IF nn[1] = 0 /\ dd[1] = 0 THEN Strip(sg, Tail(nn), Tail(dd))
  ELSE StripBy(sg, nn, dd, CommonFactor(nn[1], dd[1]))

\* sign sg, numerator nn, denominator dd > 0
Q(sg, nn, dd) ==
  IF nn = <<>> THEN Zero
  ELSE IF dd = BOne THEN [k |-> "num", s |-> sg, n |-> nn, d |-> dd]
  ELSE Strip(sg, nn, dd)

Sgn(i) == IF i < 0 THEN -1 ELSE IF i = 0 THEN 0 ELSE 1
Abs(i) == IF i < 0 THEN -i ELSE i

\* the number a / b, for integers a and b > 0
Frac(a, b) == Q(Sgn(a), BFromInt(Abs(a)), BFromInt(b))
\* the integer a
Num(a) == [k |-> "num", s |-> Sgn(a), n |-> BFromInt(Abs(a)), d |-> BOne]

\* sa*a + sb*b for signs sa, sb and naturals a, b that compare as c: its sign
SumSign(sa, sb, c) ==
  IF sa = 0 THEN sb
  ELSE IF sb = 0 \/ sa = sb THEN sa
  ELSE IF c = 0 THEN 0
  ELSE IF c > 0 THEN sa ELSE sb

\* and its magnitude
SumMag(sa, a, sb, b, c) ==
  IF sa = 0 THEN b
  ELSE IF sb = 0 THEN a
  ELSE IF sa = sb THEN BAdd(a, b)
  ELSE IF c = 0 THEN <<>>
  ELSE IF c > 0 THEN BSub(a, b) ELSE BSub(b, a)

\* (sa*a + sb*b) / dd
QSum(sa, a, sb, b, dd, c) == Q(SumSign(sa, sb, c), SumMag(sa, a, sb, b, c), dd)

FNeg(x) == IF IsNaN(x) THEN x ELSE [x EXCEPT !.s = -x.s]

\* x + y for numbers x = xs*xn/dd and y = ys*yn/dd
AddNum(xs, xn, ys, yn, dd) == QSum(xs, xn, ys, yn, dd, BCmp(xn, yn))

FAdd(x, y) ==
  IF IsNaN(x) \/ IsNaN(y) THEN NaN
  ELSE IF IsInf(x) THEN (IF IsInf(y) /\ y.s # x.s THEN NaN ELSE x)
  ELSE IF IsInf(y) THEN y
  ELSE AddNum(x.s, BMul(x.n, y.d), y.s, BMul(y.n, x.d), BMul(x.d, y.d))

FSub(x, y) == FAdd(x, FNeg(y))

FMul(x, y) ==
  IF IsNaN(x) \/ IsNaN(y) THEN NaN
  ELSE IF IsInf(x) \/ IsInf(y)
       THEN (IF x.s = 0 \/ y.s = 0 THEN NaN ELSE Inf(x.s * y.s))
  ELSE Q(x.s * y.s, BMul(x.n, y.n), BMul(x.d, y.d))

\* numpy's float division: x / 0 is an infinity, 0 / 0 is NaN, nothing raises
FDiv(x, y) ==
  IF IsNaN(x) \/ IsNaN(y) THEN NaN
  ELSE IF IsInf(x) THEN (IF IsInf(y) THEN NaN
                         ELSE Inf(IF y.s = 0 THEN x.s ELSE x.s * y.s))
  ELSE IF IsInf(y) THEN Zero
  ELSE IF y.s = 0 THEN (IF x.s = 0 THEN NaN ELSE Inf(x.s))
  ELSE Q(x.s * y.s, BMul(x.n, y.d), BMul(x.d, y.n))

\* -1, 0, 1 as x < y, x = y, x > y, for x and y not NaN
FCmp(x, y) ==
  IF IsInf(x) \/ IsInf(y)
  THEN Sgn((IF IsInf(x) THEN 2 * x.s ELSE 0) - (IF IsInf(y) THEN 2 * y.s ELSE 0))
  ELSE IF x.s # y.s THEN Sgn(x.s - y.s)
  ELSE IF x.s = 0 THEN 0
  ELSE x.s * BCmp(BMul(x.n, y.d), BMul(y.n, x.d))

\* float comparisons: every comparison with NaN is false
FEq(x, y) == ~IsNaN(x) /\ ~IsNaN(y) /\ FCmp(x, y) = 0
FLt(x, y) == ~IsNaN(x) /\ ~IsNaN(y) /\ FCmp(x, y) < 0
FLe(x, y) == ~IsNaN(x) /\ ~IsNaN(y) /\ FCmp(x, y) <= 0
FGt(x, y) == FLt(y, x)

\* the same value: equal numbers, or both NaN (a table cell unchanged)
Same(x, y) == IF IsNaN(x) \/ IsNaN(y) THEN IsNaN(x) /\ IsNaN(y) ELSE FCmp(x, y) = 0

RECURSIVE FPow(_, _)
FPow(x, t) == IF t = 0 THEN Num(1) ELSE FMul(x, FPow(x, t - 1))

(***************************************************************************)
(* pandas Series: a sequence of floats, NaN for a missing entry            *)
(***************************************************************************)
TextCell == [k |-> "str", s |-> 0, n |-> <<>>, d |-> BOne]

\* pd.to_numeric(errors="coerce") on one cell: an unparsable entry is NaN
Coerce(c) == IF c.k = "str" THEN NaN ELSE c

RECURSIVE DropNa(_)
DropNa(s) ==
  IF s = <<>> THEN <<>>
  ELSE IF IsNaN(Head(s)) THEN DropNa(Tail(s))
  ELSE <<Head(s)>> \o DropNa(Tail(s))

RECURSIVE Insert(_, _)
Insert(x, s) ==
  IF s = <<>> THEN <<x>>
  ELSE IF FLe(x, Head(s)) THEN <<x>> \o s
  ELSE <<Head(s)>> \o Insert(x, Tail(s))

RECURSIVE Sorted(_)
Sorted(s) == IF s = <<>> THEN <<>> ELSE Insert(Head(s), Sorted(Tail(s)))

RECURSIVE Sum(_)
Sum(s) == IF s = <<>> THEN Zero ELSE FAdd(Head(s), Sum(Tail(s)))

\* the mean of the entries v, none of them NaN
MeanOf(v) == IF v = <<>> THEN NaN ELSE FDiv(Sum(v), Num(Len(v)))

\* Series.mean(): NaN entries skipped, NaN for no entries
Mean(s) == MeanOf(DropNa(s))

\* the median of the sorted entries v, m of them
MedianOf(v, m) ==
  IF m = 0 THEN NaN
  ELSE IF m % 2 = 1 THEN v[(m + 1) \div 2]
  ELSE FDiv(FAdd(v[m \div 2], v[m \div 2 + 1]), Num(2))

\* Series.median(): NaN entries skipped, the mean of the two middle values
\* for an even count, NaN for no entries
Median(s) == MedianOf(Sorted(DropNa(s)), Len(DropNa(s)))

\* the value at position h / 100 (counted from 0) of the sorted entries v,
\* m of them, linearly interpolated
QuantileOf(v, m, h) ==
  IF m = 0 THEN NaN
  ELSE IF h \div 100 + 1 >= m THEN v[m]
  ELSE FAdd(v[h \div 100 + 1],
            FMul(FSub(v[h \div 100 + 2], v[h \div 100 + 1]),
                 Frac(h % 100, 100)))

\* Series.quantile(q), q = pct / 100: linearly interpolated between the
\* order statistics around position (n - 1) * q, NaN entries skipped
Quantile(s, pct) ==
  QuantileOf(Sorted(DropNa(s)), Len(DropNa(s)), (Len(DropNa(s)) - 1) * pct)

\* Series.clip(lower, upper) on one entry: NaN stays, a NaN bound does not
\* clip
ClipOne(x, lo, hi) ==
  IF FLt(x, lo) THEN (IF FGt(lo, hi) THEN hi ELSE lo)
  ELSE IF FGt(x, hi) THEN hi ELSE x

\* trimming: an entry outside the bounds dropped, not moved to the bound;
\* what clip must not be
Trim(s, lo, hi) ==
  [i \in 1..Len(s) |-> IF FLt(s[i], lo) \/ FGt(s[i], hi) THEN NaN ELSE s[i]]

Clip(s, lo, hi) == [i \in 1..Len(s) |-> ClipOne(s[i], lo, hi)]

(***************************************************************************)
(* Tables.  A CSV is a header, a sequence of columns [name, field], and    *)
(* rows, records of cells keyed by field; column `name` of a row is the    *)
(* cell of the first column carrying that name.                            *)
(***************************************************************************)
RECURSIVE SeqToSet(_)
SeqToSet(s) == IF s = <<>> THEN {} ELSE {Head(s)} \cup SeqToSet(Tail(s))

RECURSIVE Filter(_, _)
Filter(s, keep) ==
  IF s = <<>> THEN <<>>
  ELSE IF Head(s) \in keep THEN <<Head(s)>> \o Filter(Tail(s), keep)
  ELSE Filter(Tail(s), keep)

\* [c for c in names if c not in present]
Missing(names, present) == Filter(names, SeqToSet(names) \ present)

\* how many columns carry `name`: df[name] is a frame, not a series, when
\* more than one does, and pd.to_numeric (line 65) refuses a frame
ColumnCount(cols, name) ==
  Cardinality({j \in 1..Len(cols) : cols[j].name = name})

ColNames(cols) == [j \in 1..Len(cols) |-> cols[j].name]
HasCol(cols, name) == \E j \in 1..Len(cols) : cols[j].name = name
ColField(cols, name) ==
  cols[CHOOSE j \in 1..Len(cols) :
         /\ cols[j].name = name
         /\ \A i \in 1..(j - 1) : cols[i].name # name].field

\* c.strip().lower() on the header names the model draws from
StripLower(c) ==
  CASE c = " Company " -> "company"
    [] c = "Market_Cap" -> "market_cap"
    [] c = "NetDebt" -> "netdebt"
    [] c = "Sales" -> "sales"
    [] c = "EBITDA" -> "ebitda"
    [] c = "Profit" -> "profit"
    [] c = "Region " -> "region"
    [] OTHER -> c

(***************************************************************************)
(* 01_comps/app.py                                                         *)
(***************************************************************************)
REQUIRED_COLS ==
  <<"company", "market_cap", "net_debt", "revenue", "ebitda", "net_income">>

\* the keys of COLUMN_ALIASES in the dict's order
ALIAS_KEYS == <<"market_cap", "net_debt", "revenue", "ebitda", "net_income">>

COLUMN_ALIASES ==
  [market_cap |-> <<"market_cap", "market_cap_m", "mkt_cap", "marketcap",
                    "market_capitalization">>,
   net_debt |-> <<"net_debt", "net_debt_m", "netdebt">>,
   revenue |-> <<"revenue", "revenue_ltm", "revenue_ltm_m", "sales",
                 "sales_ltm", "sales_ltm_m">>,
   ebitda |-> <<"ebitda", "ebitda_ltm", "ebitda_ltm_m">>,
   net_income |-> <<"net_income", "net_income_ltm", "net_income_ltm_m",
                    "net_profit", "profit">>]

\* the first variant of `variants` among `names`, "" for none (the inner
\* loop of normalize_columns with its break)
RECURSIVE FirstVariant(_, _)
FirstVariant(variants, names) ==
  IF variants = <<>> THEN ""
  ELSE IF Head(variants) \in names THEN Head(variants)
  ELSE FirstVariant(Tail(variants), names)

\* rename_map as the set of pairs <<variant, canon>>
RenameMap(names) ==
  {p \in {<<FirstVariant(COLUMN_ALIASES[ALIAS_KEYS[i]], names),
            ALIAS_KEYS[i]>> : i \in 1..Len(ALIAS_KEYS)} : p[1] # ""}

Rename(name, map) ==
  IF \E p \in map : p[1] = name
  THEN (CHOOSE p \in map : p[1] = name)[2]
  ELSE name

\* df.columns = [c.strip().lower() for c in df.columns]
Lowered(cols) ==
  [j \in 1..Len(cols) |-> [cols[j] EXCEPT !.name = StripLower(@)]]

\* df.rename(columns=rename_map)
Renamed(cols, map) ==
  [j \in 1..Len(cols) |-> [cols[j] EXCEPT !.name = Rename(@, map)]]

normalize_columns(cols) ==
  Renamed(Lowered(cols), RenameMap(SeqToSet(ColNames(Lowered(cols)))))

\* to_numeric(df_raw, REQUIRED_COLS minus company), as rows keyed by the
\* canonical column names
to_numeric(cols, rows) ==
  [i \in 1..Len(rows) |->
     [company |-> rows[i][ColField(cols, "company")],
      market_cap |-> Coerce(rows[i][ColField(cols, "market_cap")]),
      net_debt |-> Coerce(rows[i][ColField(cols, "net_debt")]),
      revenue |-> Coerce(rows[i][ColField(cols, "revenue")]),
      ebitda |-> Coerce(rows[i][ColField(cols, "ebitda")]),
      net_income |-> Coerce(rows[i][ColField(cols, "net_income")])]]

\* Series.replace(0, np.nan) and Series.replace([np.inf, -np.inf], np.nan)
\* on one entry
ReplaceZero(d) == IF IsNum(d) /\ d.s = 0 THEN NaN ELSE d
ReplaceInf(x) == IF IsInf(x) THEN NaN ELSE x

app_safe_div(n, d) == ReplaceInf(FDiv(n, ReplaceZero(d)))

MULTIPLES == <<"EV / Revenue", "EV / EBITDA", "P / E">>

\* row r with its enterprise value ev and its three multiples
WithMultiples(r, ev) ==
  [company |-> r.company, market_cap |-> r.market_cap,
   net_debt |-> r.net_debt, revenue |-> r.revenue, ebitda |-> r.ebitda,
   net_income |-> r.net_income, EV |-> ev,
   mult |-> [m \in {"EV / Revenue", "EV / EBITDA", "P / E"} |->
               CASE m = "EV / Revenue" -> app_safe_div(ev, r.revenue)
                 [] m = "EV / EBITDA" -> app_safe_div(ev, r.ebitda)
                 [] m = "P / E" -> app_safe_div(r.market_cap, r.net_income)]]

\* lines 167-172: EV and the three multiples of every row
app_multiples(rows) ==
  [i \in 1..Len(rows) |->
     WithMultiples(rows[i], FAdd(rows[i].market_cap, rows[i].net_debt))]

RECURSIVE SelectRows(_, _, _)
\* df[df[key] != id] (keep = FALSE) or df[df[key] == id] (keep = TRUE)
SelectRows(rows, id, keep) ==
  IF rows = <<>> THEN <<>>
  ELSE IF (Head(rows).company = id) = keep
       THEN <<Head(rows)>> \o SelectRows(Tail(rows), id, keep)
       ELSE SelectRows(Tail(rows), id, keep)

Column(rows, m) == [i \in 1..Len(rows) |-> rows[i].mult[m]]

app_winsorize_series(s, plow, phigh) ==
  Clip(s, Quantile(s, plow), Quantile(s, phigh))

\* lines 178-180: every multiple column of the peers p winsorized
WinsorizedPeers(p, plow, phigh) ==
  [i \in 1..Len(p) |->
     [p[i] EXCEPT !.mult =
        [m \in {"EV / Revenue", "EV / EBITDA", "P / E"} |->
           app_winsorize_series(Column(p, m), plow, phigh)[i]]]]

\* lines 174-180: the peer set, its multiples winsorized column by column
app_peers(df, target, wins, plow, phigh) ==
  IF wins THEN WinsorizedPeers(SelectRows(df, target, FALSE), plow, phigh)
  ELSE SelectRows(df, target, FALSE)

\* stats() past its dropna: the record of the entries v
StatsOf(v) ==
  IF v = <<>> THEN [n |-> 0]
  ELSE [n |-> Len(v), mean |-> Mean(v), median |-> Median(v),
        p25 |-> Quantile(v, 25), p75 |-> Quantile(v, 75)]

stats(s) == StatsOf(DropNa(s))

\* a call's outcome: a returned value, or the exception it raised
Ret(v) == [ok |-> TRUE, val |-> v, err |-> ""]
Raise(e) == [ok |-> FALSE, val |-> NaN, err |-> e]

\* implied_equity with an open last branch, every kind it does not know
\* valued as P / E: what the dispatch must not be
implied_equity_open(multiple_name, multiple_value, target_row) ==
  IF multiple_name = "EV / Revenue"
  THEN Ret(FSub(FMul(multiple_value, target_row.revenue), target_row.net_debt))
  ELSE IF multiple_name = "EV / EBITDA"
  THEN Ret(FSub(FMul(multiple_value, target_row.ebitda), target_row.net_debt))
  ELSE Ret(FMul(multiple_value, target_row.net_income))

implied_equity(multiple_name, multiple_value, target_row) ==
  IF multiple_name = "EV / Revenue"
  THEN Ret(FSub(FMul(multiple_value, target_row.revenue), target_row.net_debt))
  ELSE IF multiple_name = "EV / EBITDA"
  THEN Ret(FSub(FMul(multiple_value, target_row.ebitda), target_row.net_debt))
  ELSE IF multiple_name = "P / E"
  THEN Ret(FMul(multiple_value, target_row.net_income))
  ELSE Raise("ValueError: Unsupported multiple")

(***************************************************************************)
(* 01_comps/src/compute_multiples.py                                       *)
(***************************************************************************)
CM_REQUIRED_COLS ==
  <<"company", "ticker", "currency", "market_cap_m", "net_debt_m",
    "revenue_ltm_m", "ebitda_ltm_m", "net_income_ltm_m">>

cm_safe_div(numer, denom) == ReplaceInf(FDiv(numer, ReplaceZero(denom)))

\* lines 37-39: the frame with its numeric columns coerced
CoerceNumeric(cols, rows) ==
  [i \in 1..Len(rows) |->
     [company |-> rows[i][ColField(cols, "company")],
      ticker |-> rows[i][ColField(cols, "ticker")],
      currency |-> rows[i][ColField(cols, "currency")],
      market_cap_m |-> Coerce(rows[i][ColField(cols, "market_cap_m")]),
      net_debt_m |-> Coerce(rows[i][ColField(cols, "net_debt_m")]),
      revenue_ltm_m |-> Coerce(rows[i][ColField(cols, "revenue_ltm_m")]),
      ebitda_ltm_m |-> Coerce(rows[i][ColField(cols, "ebitda_ltm_m")]),
      net_income_ltm_m |->
        Coerce(rows[i][ColField(cols, "net_income_ltm_m")])]]

\* validate_schema raising e; its message names the columns `missing`
SchemaError(e, missing) ==
  [ok |-> FALSE, err |-> e, missing |-> missing, found |-> <<>>, df |-> <<>>]

\* lines 41-47: the checks on the coerced frame
CheckFrame(df) ==
  IF Cardinality({df[i].currency : i \in 1..Len(df)} \ {""}) # 1
  THEN SchemaError("ValueError: Multiple currencies detected", <<>>)
  ELSE IF \E i \in 1..Len(df) : df[i].ticker = ""
  THEN SchemaError("ValueError: Ticker column contains missing values", <<>>)
  ELSE [ok |-> TRUE, err |-> "", missing |-> <<>>, found |-> <<>>, df |-> df]

\* validate_schema: the frame with numeric columns coerced, or the error
validate_schema(cols, rows) ==
  IF Missing(CM_REQUIRED_COLS, SeqToSet(ColNames(cols))) # <<>>
  THEN SchemaError("ValueError: Missing required columns",
                   Missing(CM_REQUIRED_COLS, SeqToSet(ColNames(cols))))
  ELSE CheckFrame(CoerceNumeric(cols, rows))

\* Series.where(cond): the value where the condition holds, NaN elsewhere
WherePositive(x) == IF FGt(x, Zero) THEN x ELSE NaN

CM_MULTIPLES == <<"ev_rev", "ev_ebitda", "pe">>

\* row r with its enterprise value ev and its three multiples
CmWithMultiples(r, ev) ==
  [company |-> r.company, ticker |-> r.ticker,
   market_cap_m |-> r.market_cap_m, net_debt_m |-> r.net_debt_m,
   revenue_ltm_m |-> r.revenue_ltm_m, ebitda_ltm_m |-> r.ebitda_ltm_m,
   net_income_ltm_m |-> r.net_income_ltm_m, ev_m |-> ev,
   mult |-> [m \in {"ev_rev", "ev_ebitda", "pe"} |->
               CASE m = "ev_rev" ->
                      cm_safe_div(ev, WherePositive(r.revenue_ltm_m))
                 [] m = "ev_ebitda" ->
                      cm_safe_div(ev, WherePositive(r.ebitda_ltm_m))
                 [] m = "pe" ->
                      cm_safe_div(r.market_cap_m,
                                  WherePositive(r.net_income_ltm_m))]]

compute_multiples(df) ==
  [i \in 1..Len(df) |->
     CmWithMultiples(df[i], FAdd(df[i].market_cap_m, df[i].net_debt_m))]

RECURSIVE SelectTicker(_, _, _)
\* df[df["ticker"] != t] (keep = FALSE) or df[df["ticker"] == t] (keep = TRUE)
SelectTicker(df, t, keep) ==
  IF df = <<>> THEN <<>>
  ELSE IF (Head(df).ticker = t) = keep
       THEN <<Head(df)>> \o SelectTicker(Tail(df), t, keep)
       ELSE SelectTicker(Tail(df), t, keep)

\* every row of the frame, the target's included: what the peer set must not be
AllRows(df, target_ticker) == df

\* line 69, 90, 150: df[df["ticker"] != target_ticker]
cm_peers(df, target_ticker) == SelectTicker(df, target_ticker, FALSE)

\* the medians and means of the peers' multiple columns
SummaryOf(peers, medians, means) ==
  [ev_rev_median |-> medians["ev_rev"],
   ev_ebitda_median |-> medians["ev_ebitda"],
   pe_median |-> medians["pe"],
   ev_rev_mean |-> means["ev_rev"],
   ev_ebitda_mean |-> means["ev_ebitda"],
   pe_mean |-> means["pe"],
   n_peers |-> Len(peers)]

PeerSummary(peers) ==
  SummaryOf(peers,
            [m \in {"ev_rev", "ev_ebitda", "pe"} |-> Median(Column(peers, m))],
            [m \in {"ev_rev", "ev_ebitda", "pe"} |-> Mean(Column(peers, m))])

peer_summary(df, target_ticker) == PeerSummary(cm_peers(df, target_ticker))

NoValuation ==
  [multiple_metric |-> "", multiple_used |-> NaN, base_value_m |-> NaN,
   ev_implied_m |-> NaN, equity_implied_m |-> NaN,
   current_market_cap_m |-> NaN, upside_pct |-> NaN]

Fail(e, v) == [ok |-> FALSE, err |-> e, val |-> v]

\* (equity / market cap - 1) if market cap > 0 else NaN
Upside(equity, market_cap) ==
  IF FGt(market_cap, Zero) THEN FSub(FDiv(equity, market_cap), Num(1))
  ELSE NaN

\* lines 116-126: the record implied_valuation returns
ValuationOf(multiple_col, multiple, base, t, ev_implied, equity_implied) ==
  [ok |-> TRUE, err |-> "",
   val |-> [multiple_metric |-> multiple_col, multiple_used |-> multiple,
            base_value_m |-> base, ev_implied_m |-> ev_implied,
            equity_implied_m |-> equity_implied,
            current_market_cap_m |-> t.market_cap_m,
            upside_pct |-> Upside(equity_implied, t.market_cap_m)]]

\* implied_valuation without the bridge from EV to equity: what
\* equity_implied must not be
ValuationUnbridged(multiple_col, multiple, t, base) ==
  IF IsNaN(base) \/ FLe(base, Zero)
  THEN Fail("ValueError: Target base is invalid", NoValuation)
  ELSE ValuationOf(multiple_col, multiple, base, t, FMul(multiple, base),
                   FMul(multiple, base))

\* lines 100-126: implied_valuation for the target row t, the peer median
\* `multiple` and the target's base
ValuationFrom(multiple_col, multiple, t, base) ==
  IF IsNaN(base) \/ FLe(base, Zero)
  THEN Fail("ValueError: Target base is invalid", NoValuation)
  ELSE ValuationOf(multiple_col, multiple, base, t, FMul(multiple, base),
                   FSub(FMul(multiple, base), t.net_debt_m))

\* lines 93-110 for the target row t and the peer median `multiple`
ValuationFor(multiple_col, multiple, t) ==
  IF IsNaN(multiple)
  THEN Fail("ValueError: median is NaN", NoValuation)
  ELSE IF multiple_col \notin {"ev_ebitda", "ev_rev"}
  THEN Fail("ValueError: multiple_col must be one of: 'ev_ebitda', 'ev_rev'",
            NoValuation)
  ELSE ValuationFrom(multiple_col, multiple, t,
                     IF multiple_col = "ev_ebitda" THEN t.ebitda_ltm_m
                     ELSE t.revenue_ltm_m)

implied_valuation(df, target_ticker, multiple_col) ==
  IF SelectTicker(df, target_ticker, TRUE) = <<>>
  THEN Fail("ValueError: Target ticker not found", NoValuation)
  ELSE IF multiple_col \notin {"ev_rev", "ev_ebitda", "pe"}
  THEN Fail("KeyError", NoValuation)
  ELSE ValuationFor(multiple_col,
                    Median(Column(cm_peers(df, target_ticker), multiple_col)),
                    SelectTicker(df, target_ticker, TRUE)[1])

\* clipping from above only: what winsorize_series must not be
winsorize_upper(s, lower_q, upper_q) ==
  Clip(s, Quantile(s, 0), Quantile(s, upper_q))

cm_winsorize_series(s, lower_q, upper_q) ==
  Clip(s, Quantile(s, lower_q), Quantile(s, upper_q))

Quartiles == {"p25", "p50", "p75"}
QuartilePct(q) == CASE q = "p25" -> 25 [] q = "p50" -> 50 [] q = "p75" -> 75

NoRange ==
  [multiple_metric |-> "", base_value_m |-> NaN, winsorized |-> FALSE,
   multiples |-> [q \in Quartiles |-> NaN],
   implied_ev_m |-> [q \in Quartiles |-> NaN],
   implied_equity_m |-> [q \in Quartiles |-> NaN],
   upside_pct |-> [q \in Quartiles |-> NaN], current_market_cap_m |-> NaN]

\* to_equity(m) given its ev
ToEquity(ev, t) == [ev |-> ev, eq |-> FSub(ev, t.net_debt_m)]
to_equity(m, base, t) == ToEquity(FMul(m, base), t)

\* lines 188-199: the record valuation_range returns, te the quartiles'
\* implied EV and equity
RangeOf(multiple_col, wins, base, t, qs, te) ==
  [ok |-> TRUE, err |-> "",
   val |-> [multiple_metric |-> multiple_col, base_value_m |-> base,
            winsorized |-> wins, multiples |-> qs,
            implied_ev_m |-> [q \in Quartiles |-> te[q].ev],
            implied_equity_m |-> [q \in Quartiles |-> te[q].eq],
            upside_pct |->
              [q \in Quartiles |-> Upside(te[q].eq, t.market_cap_m)],
            current_market_cap_m |-> t.market_cap_m]]

\* lines 177-186 for the quartiles qs of the peer multiples
RangeAt(multiple_col, wins, base, t, qs) ==
  RangeOf(multiple_col, wins, base, t, qs,
          [q \in Quartiles |-> to_equity(qs[q], base, t)])

\* lines 164-175 for the target row t, its base and the peers' non-missing
\* multiples mult
RangeFor(multiple_col, wins, lower_q, upper_q, t, base, mult) ==
  IF IsNaN(base) \/ FLe(base, Zero)
  THEN Fail("ValueError: Target base invalid", NoRange)
  ELSE IF mult = <<>>
  THEN Fail("ValueError: No valid peer multiples", NoRange)
  ELSE RangeAt(multiple_col, wins, base, t,
               [q \in Quartiles |->
                  Quantile(IF wins
                           THEN cm_winsorize_series(mult, lower_q, upper_q)
                           ELSE mult,
                           QuartilePct(q))])

valuation_range(df, target_ticker, multiple_col, wins, lower_q, upper_q) ==
  IF SelectTicker(df, target_ticker, TRUE) = <<>>
  THEN Fail("ValueError: Target ticker not found", NoRange)
  ELSE IF multiple_col \notin {"ev_ebitda", "ev_rev"}
  THEN Fail("ValueError: multiple_col must be one of: 'ev_ebitda', 'ev_rev'",
            NoRange)
  ELSE RangeFor(multiple_col, wins, lower_q, upper_q,
                SelectTicker(df, target_ticker, TRUE)[1],
                IF multiple_col = "ev_ebitda"
                THEN SelectTicker(df, target_ticker, TRUE)[1].ebitda_ltm_m
                ELSE SelectTicker(df, target_ticker, TRUE)[1].revenue_ltm_m,
                DropNa(Column(cm_peers(df, target_ticker), multiple_col)))

(***************************************************************************)
(* Inputs of the comps tools: the CSVs the model draws from                *)
(***************************************************************************)
MaxRows == 3

\* financials of a company, in m: market cap, net debt, revenue, EBITDA,
\* net income (a text cell is an entry pd.to_numeric cannot parse)
Profiles ==
  << [mc |-> Num(3), nd |-> Num(1), rev |-> Num(2), ebitda |-> Num(1),
      ni |-> Num(1)],
     [mc |-> Num(1), nd |-> Num(1), rev |-> Num(1), ebitda |-> Num(2),
      ni |-> Num(-1)],
     [mc |-> Num(0), nd |-> Num(2), rev |-> Num(1), ebitda |-> Num(-1),
      ni |-> NaN],
     [mc |-> Num(96), nd |-> Num(4), rev |-> Num(0), ebitda |-> Num(1),
      ni |-> Num(2)],
     [mc |-> TextCell, nd |-> Num(1), rev |-> NaN, ebitda |-> Num(0),
      ni |-> Num(0)] >>

Companies == <<"TargetCo", "PeerA", "PeerB", "PeerC", "PeerD">>
Tickers == <<"TGT", "PA", "PB", "PC", "PD">>

\* row i of a CSV: the target first, unless the CSV holds no target row
MkRow(i, prof, hasTarget, cur) ==
  [company |-> IF i = 1 /\ ~hasTarget THEN "Zeta" ELSE Companies[i],
   ticker |-> IF i = 1 /\ ~hasTarget THEN "ZTA" ELSE Tickers[i],
   currency |-> cur, region |-> "EU",
   mc |-> prof.mc, nd |-> prof.nd, rev |-> prof.rev, ebitda |-> prof.ebitda,
   ni |-> prof.ni]

Datasets(hasTarget) ==
  UNION {{[i \in 1..n |-> MkRow(i, Profiles[ps[i]], hasTarget, "EUR")] :
            ps \in [1..n -> 1..Len(Profiles)]} : n \in 1..MaxRows}

DefaultRows ==
  [i \in 1..3 |-> MkRow(i, Profiles[IF i = 3 THEN 2 ELSE 1], TRUE, "EUR")]

\* the default rows with a second currency in the last row
MixedRows ==
  [i \in 1..3 |-> MkRow(i, Profiles[1], TRUE, IF i = 3 THEN "USD" ELSE "EUR")]

Col(name, field) == [name |-> name, field |-> field]

\* the header of 01_comps/data/raw/peers.csv
LayoutPeersCsv ==
  <<Col("company", "company"), Col("ticker", "ticker"),
    Col("currency", "currency"), Col("market_cap_m", "mc"),
    Col("net_debt_m", "nd"), Col("revenue_ltm_m", "rev"),
    Col("ebitda_ltm_m", "ebitda"), Col("net_income_ltm_m", "ni")>>

\* other spellings, an unmapped column
LayoutStyled ==
  <<Col(" Company ", "company"), Col("Region ", "region"),
    Col("Market_Cap", "mc"), Col("NetDebt", "nd"), Col("Sales", "rev"),
    Col("EBITDA", "ebitda"), Col("Profit", "ni")>>

\* no EBITDA column
LayoutNoEbitda ==
  <<Col("company", "company"), Col("ticker", "ticker"),
    Col("currency", "currency"), Col("market_cap_m", "mc"),
    Col("net_debt_m", "nd"), Col("revenue_ltm_m", "rev"),
    Col("net_income_ltm_m", "ni")>>

\* no company column, an unknown spelling of market cap
LayoutNoCompany ==
  <<Col("ticker", "ticker"), Col("currency", "currency"),
    Col("mcap", "mc"), Col("net_debt_m", "nd"), Col("revenue_ltm_m", "rev"),
    Col("ebitda_ltm_m", "ebitda"), Col("net_income_ltm_m", "ni")>>

\* two aliases of revenue, the later one of the alias list in the earlier
\* column
LayoutTwoAliases ==
  <<Col("company", "company"), Col("ticker", "ticker"),
    Col("currency", "currency"), Col("market_cap_m", "mc"),
    Col("net_debt_m", "nd"), Col("sales", "ebitda"),
    Col("revenue_ltm_m", "rev"), Col("ebitda_ltm_m", "ebitda"),
    Col("net_income_ltm_m", "ni")>>

\* one alias of revenue in two spellings
LayoutTwoSpellings ==
  <<Col("company", "company"), Col("market_cap_m", "mc"),
    Col("net_debt_m", "nd"), Col("Sales", "rev"), Col("sales", "rev"),
    Col("ebitda_ltm_m", "ebitda"), Col("net_income_ltm_m", "ni")>>

Layouts ==
  {LayoutPeersCsv, LayoutStyled, LayoutNoEbitda, LayoutNoCompany,
   LayoutTwoAliases, LayoutTwoSpellings}

\* the sidebar's winsorization percentiles (p_low, p_high), in percent
PBounds == {<<5, 95>>, <<20, 80>>}


(***************************************************************************)
(* State                                                                   *)
(***************************************************************************)
VARIABLES
  app,     \* which program runs: "dash" (01_comps/app.py) or "batch"
           \* (compute_multiples.py main)
  layout,  \* the header of the CSV read
  rows,    \* its rows
  cfg,     \* the sidebar: target_name, winsorize, p_low, p_high
  pc,      \* the position of the run in its script
  cols,    \* the header after normalize_columns
  df,      \* the frame with EV and the multiples
  peers,   \* the peer set shown (dashboard)
  out,     \* what the run has produced so far, in order
  exc,     \* the exception that ended the run, "" for none
  res,     \* the values of what was produced
  prev,    \* what the run before a change of the target row produced
  probe    \* the outcome of a direct call of a solver function

vars == <<app, layout, rows, cfg, pc, cols, df, peers, out, exc, res, prev,
          probe>>

NoSummary ==
  [ev_rev_median |-> NaN, ev_ebitda_median |-> NaN, pe_median |-> NaN,
   ev_rev_mean |-> NaN, ev_ebitda_mean |-> NaN, pe_mean |-> NaN,
   n_peers |-> 0]

NoRes ==
  [error |-> [text |-> "", missing |-> <<>>, found |-> <<>>],
   display_cols |-> <<>>, summary_txt |-> <<>>, stats_df |-> <<>>,
   implied_df |-> <<>>, summary |-> NoSummary,
   valuation |-> Fail("", NoValuation), vr |-> Fail("", NoRange)]

NoPrev ==
  [set |-> FALSE, peers |-> <<>>, summary_txt |-> <<>>,
   stats_df |-> <<>>, summary |-> NoSummary, multiple_used |-> NaN,
   multiples |-> [q \in Quartiles |-> NaN]]

NoProbe ==
  [fn |-> "", kind |-> "", arg |-> NaN, eq |-> Raise(""),
   iv |-> Fail("", NoValuation), vr |-> Fail("", NoRange)]

DashConfigs ==
  {[target_name |-> t, winsorize |-> w, p_low |-> pb[1], p_high |-> pb[2]] :
     t \in {"TargetCo", "Nobody"}, w \in {TRUE}, pb \in PBounds}
  \cup {[target_name |-> t, winsorize |-> FALSE, p_low |-> 5, p_high |-> 95] :
          t \in {"TargetCo", "Nobody"}}

\* main() passes its arguments as literals
BatchConfig ==
  [target_name |-> "TGT", winsorize |-> TRUE, p_low |-> 5, p_high |-> 95]

DashInputs ==
  {<<LayoutPeersCsv, d>> : d \in Datasets(TRUE)}
  \cup {<<l, DefaultRows>> : l \in Layouts}

BatchInputs ==
  {<<LayoutPeersCsv, d>> : d \in Datasets(TRUE) \cup Datasets(FALSE)}
  \cup {<<l, DefaultRows>> : l \in Layouts}
  \cup {<<LayoutPeersCsv, MixedRows>>}

Init ==
  /\ app \in {"dash", "batch"}
  /\ \E in \in (IF app = "dash" THEN DashInputs ELSE BatchInputs) :
       /\ layout = in[1]
       /\ rows = in[2]
  /\ cfg \in (IF app = "dash" THEN DashConfigs ELSE {BatchConfig})
  /\ pc = "start"
  /\ cols = <<>>
  /\ df = <<>>
  /\ peers = <<>>
  /\ out = <<>>
  /\ exc = ""
  /\ res = NoRes
  /\ prev = NoPrev
  /\ probe = NoProbe

Produced(what) == \E j \in 1..Len(out) : out[j] = what

(***************************************************************************)
(* A run of 01_comps/app.py                                                *)
(***************************************************************************)
\* lines 140-159: read the CSV, normalize the header, validate
DashLoad ==
  /\ app = "dash" /\ pc = "start"
  /\ cols' = normalize_columns(layout)
  /\ \E missing \in {Missing(REQUIRED_COLS, SeqToSet(ColNames(cols')))} :
       IF missing # <<>>
       THEN /\ res' = [res EXCEPT !.error =
                         [text |-> "Missing required columns after normalization.",
                          missing |-> missing, found |-> ColNames(cols')]]
            /\ out' = Append(out, "st.error")
            /\ pc' = "stopped"
       ELSE /\ pc' = "compute"
            /\ UNCHANGED <<res, out>>
  /\ UNCHANGED <<app, layout, rows, cfg, df, peers, exc, prev, probe>>

\* lines 161-180: coerce, compute the multiples, select and winsorize peers;
\* the coercion dies on a required column that is there twice
DashCompute ==
  /\ app = "dash" /\ pc = "compute"
  /\ IF \E c \in SeqToSet(Tail(REQUIRED_COLS)) : ColumnCount(cols, c) > 1
     THEN /\ exc' = "TypeError: arg must be a list, tuple, 1-d array, or Series"
          /\ pc' = "crashed"
          /\ UNCHANGED <<df, peers>>
     ELSE /\ df' = app_multiples(to_numeric(cols, rows))
          /\ peers' = app_peers(df', cfg.target_name, cfg.winsorize,
                                cfg.p_low, cfg.p_high)
          /\ pc' = "left"
          /\ exc' = exc
  /\ UNCHANGED <<app, layout, rows, cfg, cols, out, res, prev, probe>>

\* stats(peers[m]) for each multiple m
PeerStats == [j \in 1..Len(MULTIPLES) |-> stats(Column(peers, MULTIPLES[j]))]
HasKey(rec, key) == key \in DOMAIN rec

\* lines 187-188
DisplayCols ==
  <<"company">>
  \o (IF HasCol(layout, "ticker") THEN <<"ticker">> ELSE <<>>)
  \o (IF HasCol(layout, "currency") THEN <<"currency">> ELSE <<>>)
  \o MULTIPLES

\* lines 187-219: the peer table, its download, the summary text
DashLeft ==
  /\ app = "dash" /\ pc = "left"
  /\ \E ps \in {PeerStats} :
       IF \A j \in 1..Len(MULTIPLES) : HasKey(ps[j], "median")
       THEN /\ res' = [res EXCEPT
                         !.display_cols = DisplayCols,
                         !.summary_txt =
                           [j \in 1..Len(MULTIPLES) |-> ps[j].median]]
            /\ out' = out \o <<"peers_table", "download_csv",
                               "download_summary">>
            /\ pc' = "right"
            /\ exc' = exc
       ELSE /\ res' = [res EXCEPT !.display_cols = DisplayCols]
            /\ out' = out \o <<"peers_table", "download_csv">>
            /\ pc' = "crashed"
            /\ exc' = "KeyError: 'median'"
  /\ UNCHANGED <<app, layout, rows, cfg, cols, df, peers, prev, probe>>

\* one row of stats_df: a key a stats() record lacks is NaN in the frame
StatsRow(st) ==
  [n |-> st.n,
   Mean |-> IF HasKey(st, "mean") THEN st.mean ELSE NaN,
   Median |-> IF HasKey(st, "median") THEN st.median ELSE NaN,
   P25 |-> IF HasKey(st, "p25") THEN st.p25 ELSE NaN,
   P75 |-> IF HasKey(st, "p75") THEN st.p75 ELSE NaN]

\* lines 254-262: the rows of the implied-equity table for the target row t
ImpliedRows(ps, t) ==
  [j \in 1..Len(MULTIPLES) |->
     [Method |-> MULTIPLES[j], Multiple |-> ps[j].median,
      Implied |-> implied_equity(MULTIPLES[j], ps[j].median, t).val]]

\* lines 221-267: the statistics table, the target's implied equity
DashRight ==
  /\ app = "dash" /\ pc = "right"
  /\ \E ps \in {PeerStats} :
     \E target_df \in {SelectRows(df, cfg.target_name, TRUE)} :
     \E stats_df \in {[j \in 1..Len(MULTIPLES) |-> StatsRow(ps[j])]} :
       IF \A j \in 1..Len(MULTIPLES) : ~HasKey(ps[j], "mean")
       THEN /\ pc' = "crashed"
            /\ exc' = "KeyError: 'Mean'"
            /\ UNCHANGED <<res, out>>
       ELSE IF target_df = <<>>
       THEN /\ res' = [res EXCEPT !.stats_df = stats_df]
            /\ out' = out \o <<"stats_table", "st.info">>
            /\ pc' = "done"
            /\ exc' = exc
       ELSE IF \E j \in 1..Len(MULTIPLES) : ~HasKey(ps[j], "median")
       THEN /\ res' = [res EXCEPT !.stats_df = stats_df]
            /\ out' = Append(out, "stats_table")
            /\ pc' = "crashed"
            /\ exc' = "KeyError: 'median'"
       ELSE /\ res' = [res EXCEPT !.stats_df = stats_df,
                                  !.implied_df = ImpliedRows(ps, target_df[1])]
            /\ out' = out \o <<"stats_table", "implied_table">>
            /\ pc' = "done"
            /\ exc' = exc
  /\ UNCHANGED <<app, layout, rows, cfg, cols, df, peers, prev, probe>>

\* the kinds a caller may hand to implied_equity, one of them unknown
DashKinds == {"EV / Revenue", "EV / EBITDA", "P / E", "P / B"}

\* a direct call of implied_equity(kind, multiple, target row): with the
\* target's own multiple, or with 2.0
DashCallImpliedEquity ==
  /\ app = "dash" /\ pc = "done" /\ probe.fn = "" /\ ~prev.set
  /\ \E target_df \in {SelectRows(df, cfg.target_name, TRUE)} :
       /\ target_df # <<>>
       /\ \E kind \in DashKinds :
            \E mv \in {Num(2)} \cup
                      (IF kind \in DOMAIN target_df[1].mult
                       THEN {target_df[1].mult[kind]} ELSE {}) :
              probe' = [probe EXCEPT
                          !.fn = "implied_equity", !.kind = kind, !.arg = mv,
                          !.eq = implied_equity(kind, mv, target_df[1])]
  /\ UNCHANGED <<app, layout, rows, cfg, pc, cols, df, peers, out, exc, res,
                 prev>>

(***************************************************************************)
(* A run of compute_multiples.py main()                                    *)
(***************************************************************************)
\* lines 248-249
BatchValidate ==
  /\ app = "batch" /\ pc = "start"
  /\ \E v \in {validate_schema(layout, rows)} :
       IF v.ok
       THEN /\ df' = v.df
            /\ pc' = "compute"
            /\ UNCHANGED <<exc, res>>
       ELSE /\ exc' = v.err
            /\ res' = [res EXCEPT !.error =
                         [text |-> v.err, missing |-> v.missing,
                          found |-> v.found]]
            /\ pc' = "failed"
            /\ df' = df
  /\ cols' = layout
  /\ UNCHANGED <<app, layout, rows, cfg, peers, out, prev, probe>>

\* lines 251-252
BatchCompute ==
  /\ app = "batch" /\ pc = "compute"
  /\ df' = compute_multiples(df)
  /\ out' = Append(out, "file:peers_with_multiples.csv")
  /\ pc' = "summary"
  /\ UNCHANGED <<app, layout, rows, cfg, cols, peers, exc, res, prev, probe>>

\* lines 255-262
BatchSummary ==
  /\ app = "batch" /\ pc = "summary"
  /\ res' = [res EXCEPT !.summary = peer_summary(df, "TGT")]
  /\ out' = Append(out, "print:summary")
  /\ pc' = "implied"
  /\ UNCHANGED <<app, layout, rows, cfg, cols, df, peers, exc, prev, probe>>

\* lines 265-275
BatchImplied ==
  /\ app = "batch" /\ pc = "implied"
  /\ \E r \in {implied_valuation(df, "TGT", "ev_ebitda")} :
       /\ res' = [res EXCEPT !.valuation = r]
       /\ IF r.ok
          THEN /\ out' = Append(out, "print:valuation")
               /\ pc' = "range"
               /\ exc' = exc
          ELSE /\ out' = out
               /\ pc' = "failed"
               /\ exc' = r.err
  /\ UNCHANGED <<app, layout, rows, cfg, cols, df, peers, prev, probe>>

\* lines 278-300
BatchRange ==
  /\ app = "batch" /\ pc = "range"
  /\ \E r \in {valuation_range(df, "TGT", "ev_ebitda", TRUE, 5, 95)} :
       /\ res' = [res EXCEPT !.vr = r]
       /\ IF r.ok
          THEN /\ out' = Append(out, "print:range")
               /\ pc' = "report"
               /\ exc' = exc
          ELSE /\ out' = out
               /\ pc' = "failed"
               /\ exc' = r.err
  /\ UNCHANGED <<app, layout, rows, cfg, cols, df, peers, prev, probe>>

\* the report written whether or not the valuations succeeded: what main()
\* must not do
BatchReportAnyway ==
  /\ app = "batch" /\ pc \in {"report", "failed"}
  /\ ~Produced("file:comps_summary.txt")
  /\ out' = Append(out, "file:comps_summary.txt")
  /\ pc' = "done"
  /\ UNCHANGED <<app, layout, rows, cfg, cols, df, peers, exc, res, prev,
                 probe>>

\* lines 303-306
BatchReport ==
  /\ app = "batch" /\ pc = "report"
  /\ out' = Append(out, "file:comps_summary.txt")
  /\ pc' = "done"
  /\ UNCHANGED <<app, layout, rows, cfg, cols, df, peers, exc, res, prev,
                 probe>>

\* the columns a caller may name, one of them not in the frame
CmKinds == {"ev_rev", "ev_ebitda", "pe", "ev_sales"}

\* a direct call of implied_valuation(df, target, kind) on the frame of
\* the run
BatchCallImpliedValuation ==
  /\ app = "batch" /\ pc \in {"done", "failed"} /\ probe.fn = "" /\ ~prev.set
  /\ Produced("file:peers_with_multiples.csv")
  /\ \E kind \in CmKinds :
       probe' = [probe EXCEPT !.fn = "implied_valuation", !.kind = kind,
                              !.iv = implied_valuation(df, "TGT", kind)]
  /\ UNCHANGED <<app, layout, rows, cfg, pc, cols, df, peers, out, exc, res,
                 prev>>

\* a direct call of valuation_range(df, target, kind) with the default bounds
BatchCallValuationRange ==
  /\ app = "batch" /\ pc \in {"done", "failed"} /\ probe.fn = "" /\ ~prev.set
  /\ Produced("file:peers_with_multiples.csv")
  /\ \E kind \in CmKinds :
       probe' = [probe EXCEPT !.fn = "valuation_range", !.kind = kind,
                              !.vr = valuation_range(df, "TGT", kind, TRUE,
                                                     5, 95)]
  /\ UNCHANGED <<app, layout, rows, cfg, pc, cols, df, peers, out, exc, res,
                 prev>>

(***************************************************************************)
(* The user changes the financials of the target's row and runs again      *)
(***************************************************************************)
IsTargetRow(r) ==
  IF app = "dash" THEN r.company = cfg.target_name ELSE r.ticker = "TGT"

EditTarget ==
  /\ pc \in {"done", "crashed", "failed"} /\ probe.fn = "" /\ ~prev.set
  /\ layout = LayoutPeersCsv
  /\ \E i \in 1..Len(rows) : \E p \in 1..Len(Profiles) :
       /\ IsTargetRow(rows[i])
       /\ rows' = [rows EXCEPT ![i] = MkRow(i, Profiles[p], TRUE,
                                            rows[i].currency)]
       /\ rows' # rows
  /\ prev' = [set |-> TRUE, peers |-> peers, summary_txt |-> res.summary_txt,
              stats_df |-> res.stats_df, summary |-> res.summary,
              multiple_used |-> res.valuation.val.multiple_used,
              multiples |-> res.vr.val.multiples]
  /\ pc' = "start"
  /\ cols' = <<>>
  /\ df' = <<>>
  /\ peers' = <<>>
  /\ out' = <<>>
  /\ exc' = ""
  /\ res' = NoRes
  /\ UNCHANGED <<app, layout, cfg, probe>>

Next ==
  \/ DashLoad
  \/ DashCompute
  \/ DashLeft
  \/ DashRight
  \/ DashCallImpliedEquity
  \/ BatchValidate
  \/ BatchCompute
  \/ BatchSummary
  \/ BatchImplied
  \/ BatchRange
  \/ BatchReport
  \/ BatchCallImpliedValuation
  \/ BatchCallValuationRange
  \/ EditTarget

Spec == Init /\ [][Next]_vars

(***************************************************************************)
(* 02_dcf/data/assumptions.py                                              *)
(***************************************************************************)
N_YEARS == 5
REVENUE_0 == Num(5000)
REVENUE_GROWTH == Frac(4, 100)
EBIT_MARGIN == Frac(20, 100)
TAX_RATE == Frac(28, 100)
DA_PCT_REVENUE == Frac(3, 100)
CAPEX_PCT_REVENUE == Frac(4, 100)
NWC_PCT_REVENUE == Frac(10, 100)
RISK_FREE_RATE == Frac(25, 1000)
EQUITY_RISK_PREMIUM == Frac(55, 1000)
BETA == Frac(110, 100)
COST_OF_DEBT == Frac(4, 100)
WEIGHT_EQUITY == Frac(70, 100)
WEIGHT_DEBT == Frac(30, 100)
TERMINAL_GROWTH == Frac(25, 1000)
NET_DEBT == Num(600)

(***************************************************************************)
(* 02_dcf/src/wacc.py                                                      *)
(***************************************************************************)
cost_of_equity == FAdd(RISK_FREE_RATE, FMul(BETA, EQUITY_RISK_PREMIUM))

\* the cost of debt before tax: what after_tax_cost_of_debt must not be
pre_tax_cost_of_debt == COST_OF_DEBT

after_tax_cost_of_debt == FMul(COST_OF_DEBT, FSub(Num(1), TAX_RATE))

compute_wacc ==
  FAdd(FMul(WEIGHT_EQUITY, cost_of_equity),
       FMul(WEIGHT_DEBT, after_tax_cost_of_debt))

(***************************************************************************)
(* The FCF build-up: 02_dcf/app.py build_fcf_table and, line for line the  *)
(* same over the constants of assumptions.py, 02_dcf/src/fcf_build.py      *)
(***************************************************************************)
\* the revenue path started at year 0: what the path must not be
RevenuePathFromZero(n_years, revenue_0, revenue_growth) ==
  [t \in 1..n_years |->
     FMul(revenue_0, FPow(FAdd(Num(1), revenue_growth), t - 1))]

\* revenue = [revenue_0 * (1 + revenue_growth) ** t for t in years]
RevenuePath(n_years, revenue_0, revenue_growth) ==
  [t \in 1..n_years |->
     FMul(revenue_0, FPow(FAdd(Num(1), revenue_growth), t))]

\* the row of year t from its columns
FcfRowOf(t, revenue, ebit, nopat, da, capex, delta_nwc) ==
  [Year |-> t, Revenue |-> revenue, EBIT |-> ebit, NOPAT |-> nopat,
   DA |-> da, CAPEX |-> capex, dNWC |-> delta_nwc,
   FCF |-> FSub(FSub(FAdd(nopat, da), capex), delta_nwc)]

\* the row of year t from the year's revenue and EBIT and the revenue of
\* the year before
FcfRow(t, revenue, before, ebit, tax_rate, da_pct_rev, capex_pct_rev, nwc_pct_rev) ==
  FcfRowOf(t, revenue, ebit, FMul(ebit, FSub(Num(1), tax_rate)),
           FMul(revenue, da_pct_rev), FMul(revenue, capex_pct_rev),
           FSub(FMul(revenue, nwc_pct_rev), FMul(before, nwc_pct_rev)))

FcfTable(n_years, revenue_0, revenue, ebit_margin, tax_rate, da_pct_rev, capex_pct_rev, nwc_pct_rev) ==
  [t \in 1..n_years |->
     FcfRow(t, revenue[t], IF t = 1 THEN revenue_0 ELSE revenue[t - 1],
            FMul(revenue[t], ebit_margin), tax_rate, da_pct_rev,
            capex_pct_rev, nwc_pct_rev)]

\* 02_dcf/app.py
app_build_fcf_table(n_years, revenue_0, revenue_growth, ebit_margin, tax_rate, da_pct_rev, capex_pct_rev, nwc_pct_rev) ==
  FcfTable(n_years, revenue_0,
           RevenuePath(n_years, revenue_0, revenue_growth), ebit_margin,
           tax_rate, da_pct_rev, capex_pct_rev, nwc_pct_rev)

\* 02_dcf/src/fcf_build.py
build_fcf_table ==
  FcfTable(N_YEARS, REVENUE_0,
           RevenuePath(N_YEARS, REVENUE_0, REVENUE_GROWTH), EBIT_MARGIN,
           TAX_RATE, DA_PCT_REVENUE, CAPEX_PCT_REVENUE, NWC_PCT_REVENUE)

\* fcf_df["FCF"].astype(float).tolist()
FcfColumn(fcf_df) == [t \in 1..Len(fcf_df) |-> fcf_df[t].FCF]

(***************************************************************************)
(* 02_dcf/app.py: discounting, terminal value, valuation, sensitivity      *)
(***************************************************************************)
WaccNotAboveG ==
  "ValueError: WACC must be strictly greater than terminal growth rate."

\* discount with the first flow at year 0: what discount must not be
discount_from_zero(values, rate) ==
  [t \in 1..Len(values) |-> FDiv(values[t], FPow(FAdd(Num(1), rate), t - 1))]

app_discount(values, rate) ==
  [t \in 1..Len(values) |-> FDiv(values[t], FPow(FAdd(Num(1), rate), t))]

\* terminal_value with the guard wacc < g: what the guard must not be
terminal_value_lax(fcf_last, wacc, g) ==
  IF FLt(wacc, g) THEN Raise(WaccNotAboveG)
  ELSE Ret(FDiv(FMul(fcf_last, FAdd(Num(1), g)), FSub(wacc, g)))

app_terminal_value(fcf_last, wacc, g) ==
  IF FLe(wacc, g) THEN Raise(WaccNotAboveG)
  ELSE Ret(FDiv(FMul(fcf_last, FAdd(Num(1), g)), FSub(wacc, g)))

NoDcfValuation ==
  [pv_fcfs |-> NaN, pv_tv |-> NaN, ev |-> NaN, net_debt |-> NaN, eq |-> NaN]

\* ev = pv_fcfs + pv_tv and eq = ev - net_debt
DcfBridge(pv_fcfs, pv_tv, net_debt) ==
  [ok |-> TRUE, err |-> "",
   val |-> [pv_fcfs |-> pv_fcfs, pv_tv |-> pv_tv,
            ev |-> FAdd(pv_fcfs, pv_tv), net_debt |-> net_debt,
            eq |-> FSub(FAdd(pv_fcfs, pv_tv), net_debt)]]

\* the valuation from the discounted FCFs pvs of n years and the outcome tv
\* of terminal_value
DcfValuation(pvs, n, wacc, net_debt, tv) ==
  IF ~tv.ok THEN Fail(tv.err, NoDcfValuation)
  ELSE DcfBridge(Sum(pvs), FDiv(tv.val, FPow(FAdd(Num(1), wacc), n)),
                 net_debt)

\* lines 202-209
app_valuation(fcfs, wacc, terminal_g, net_debt) ==
  DcfValuation(app_discount(fcfs, wacc), Len(fcfs), wacc, net_debt,
               app_terminal_value(fcfs[Len(fcfs)], wacc, terminal_g))

\* equity_value_for without the bridge to equity: what a cell must not be
enterprise_value_for(fcfs, w, g, net_debt) ==
  IF FLe(w, g) THEN NaN
  ELSE FAdd(Sum(app_discount(fcfs, w)),
            FDiv(app_terminal_value(fcfs[Len(fcfs)], w, g).val,
                 FPow(FAdd(Num(1), w), Len(fcfs))))

\* lines 284-290
equity_value_for(fcfs, w, g, net_debt) ==
  IF FLe(w, g) THEN NaN
  ELSE FSub(FAdd(Sum(app_discount(fcfs, w)),
                 FDiv(app_terminal_value(fcfs[Len(fcfs)], w, g).val,
                      FPow(FAdd(Num(1), w), Len(fcfs)))),
            net_debt)

\* lines 279-280
wacc_grid(wacc) ==
  <<FSub(wacc, Frac(1, 100)), FSub(wacc, Frac(5, 1000)), wacc,
    FAdd(wacc, Frac(5, 1000)), FAdd(wacc, Frac(1, 100))>>
g_grid(terminal_g) ==
  <<FSub(terminal_g, Frac(5, 1000)), terminal_g,
    FAdd(terminal_g, Frac(5, 1000))>>

\* lines 292-296: the grid, rows g and columns WACC
SensiOf(fcfs, ws, gs, net_debt) ==
  [i \in 1..Len(gs) |->
     [j \in 1..Len(ws) |-> equity_value_for(fcfs, ws[j], gs[i], net_debt)]]

sensi(fcfs, wacc, terminal_g, net_debt) ==
  SensiOf(fcfs, wacc_grid(wacc), g_grid(terminal_g), net_debt)

(***************************************************************************)
(* 02_dcf/src/dcf_valuation.py                                             *)
(***************************************************************************)
dcf_discount(values, rate) ==
  [t \in 1..Len(values) |-> FDiv(values[t], FPow(FAdd(Num(1), rate), t))]

dcf_terminal_value(fcf_last, wacc, g) ==
  IF FLe(wacc, g) THEN Raise(WaccNotAboveG)
  ELSE Ret(FDiv(FMul(fcf_last, FAdd(Num(1), g)), FSub(wacc, g)))

\* lines 75-88 of main()
dcf_valuation(fcfs, wacc) ==
  DcfValuation(dcf_discount(fcfs, wacc), Len(fcfs), wacc, NET_DEBT,
               dcf_terminal_value(fcfs[Len(fcfs)], wacc, TERMINAL_GROWTH))

(***************************************************************************)
(* The DCF programs as a state machine over the same variables: app is     *)
(* "dcf_dash" (02_dcf/app.py) or "dcf_batch" (dcf_valuation.py main), cfg  *)
(* the sidebar, df the FCF table, res the valuation and the grid.          *)
(***************************************************************************)
MaxYears == 4

\* the sidebar left at the values of assumptions.py
DcfDefaults ==
  [n_years |-> N_YEARS, revenue_0 |-> REVENUE_0,
   revenue_growth |-> REVENUE_GROWTH, ebit_margin |-> EBIT_MARGIN,
   tax_rate |-> TAX_RATE, da_pct |-> DA_PCT_REVENUE,
   capex_pct |-> CAPEX_PCT_REVENUE, nwc_pct |-> NWC_PCT_REVENUE,
   terminal_g |-> TERMINAL_GROWTH, net_debt |-> NET_DEBT,
   use_model_wacc |-> TRUE, manual_wacc |-> Frac(8, 100),
   show_sensi |-> TRUE]

\* what the user sets in the sidebar, within the limits of the widgets
DcfGrowths == {REVENUE_GROWTH, Frac(-10, 100)}
DcfTerminalGs == {TERMINAL_GROWTH, Frac(8, 100)}
DcfNetDebts == {NET_DEBT, Num(-100)}
DcfWaccChoices ==
  {<<TRUE, Frac(8, 100)>>, <<FALSE, Frac(8, 100)>>, <<FALSE, Frac(3, 100)>>}

DcfTaxRates == {TAX_RATE, Frac(20, 100)}

\* the sidebar untouched, the sensitivity checkbox of line 276 either way
DcfUntouched == {[DcfDefaults EXCEPT !.show_sensi = sh] : sh \in BOOLEAN}

DcfSidebars ==
  {[DcfDefaults EXCEPT !.n_years = n, !.revenue_growth = rg,
                       !.tax_rate = tx,
                       !.terminal_g = tg, !.net_debt = nd,
                       !.use_model_wacc = wc[1], !.manual_wacc = wc[2],
                       !.show_sensi = sh] :
     n \in 3..MaxYears, rg \in DcfGrowths, tx \in DcfTaxRates,
     tg \in DcfTerminalGs, nd \in DcfNetDebts, wc \in DcfWaccChoices,
     sh \in BOOLEAN}
  \cup DcfUntouched

NoDcfRes ==
  [wacc |-> NaN, valuation |-> Fail("", NoDcfValuation), sensi |-> <<>>,
   sensi_for_export |-> "unset"]

NoDcfProbe ==
  [fn |-> "", fcf_last |-> NaN, wacc |-> NaN, g |-> NaN,
   app |-> Raise(""), dcf |-> Raise("")]

InitDCF ==
  /\ app \in {"dcf_dash", "dcf_batch"}
  /\ cfg \in (IF app = "dcf_dash" THEN DcfSidebars ELSE {DcfDefaults})
  /\ layout = <<>>
  /\ rows = <<>>
  /\ pc = "start"
  /\ cols = <<>>
  /\ df = <<>>
  /\ peers = <<>>
  /\ out = <<>>
  /\ exc = ""
  /\ res = NoDcfRes
  /\ prev = NoPrev
  /\ probe = NoDcfProbe

\* app.py lines 165-176
DcfCompute ==
  /\ app = "dcf_dash" /\ pc = "start"
  /\ df' = app_build_fcf_table(cfg.n_years, cfg.revenue_0,
                               cfg.revenue_growth, cfg.ebit_margin,
                               cfg.tax_rate, cfg.da_pct, cfg.capex_pct,
                               cfg.nwc_pct)
  /\ res' = [res EXCEPT !.wacc = IF cfg.use_model_wacc THEN compute_wacc
                                 ELSE cfg.manual_wacc]
  /\ pc' = "col1"
  /\ UNCHANGED <<app, layout, rows, cfg, cols, peers, out, exc, prev, probe>>

\* app.py lines 180-197
DcfForecast ==
  /\ app = "dcf_dash" /\ pc = "col1"
  /\ out' = out \o <<"fcf_table", "fcf_chart", "revenue_chart">>
  /\ pc' = "col2"
  /\ UNCHANGED <<app, layout, rows, cfg, cols, df, peers, exc, res, prev,
                 probe>>

\* line 245: sensi is None two lines above, "sensi" is in locals()
NoneHasNoCopy == "AttributeError: 'NoneType' object has no attribute 'copy'"

\* app.py lines 201-245 and 302-303: the valuation, its table, the report
\* download; then sensi.copy() on None raises, whatever the inputs, and the
\* except clause shows the message: lines 247-300 (Excel export, waterfall,
\* sensitivity grid) are never reached
DcfOutput ==
  /\ app = "dcf_dash" /\ pc = "col2"
  /\ \E v \in {app_valuation(FcfColumn(df), res.wacc, cfg.terminal_g,
                             cfg.net_debt)} :
       IF v.ok
       THEN /\ res' = [res EXCEPT !.valuation = v,
                                  !.sensi_for_export = "None"]
            /\ out' = out \o <<"valuation_table", "wacc_used",
                               "terminal_growth", "download_report",
                               "st.error">>
            /\ exc' = NoneHasNoCopy
       ELSE /\ res' = [res EXCEPT !.valuation = v]
            /\ out' = Append(out, "st.error")
            /\ exc' = v.err
  /\ pc' = "caption"
  /\ UNCHANGED <<app, layout, rows, cfg, cols, df, peers, prev, probe>>

\* app.py lines 278-296 evaluated on their own over the values of a run
\* that has valued its schedule: the grid the block would show
DcfEvalSensitivity ==
  /\ app = "dcf_dash" /\ pc = "done" /\ probe.fn = ""
  /\ res.valuation.ok /\ cfg.show_sensi
  /\ res' = [res EXCEPT !.sensi = sensi(FcfColumn(df), res.wacc,
                                        cfg.terminal_g, cfg.net_debt)]
  /\ probe' = [probe EXCEPT !.fn = "sensitivity"]
  /\ UNCHANGED <<app, layout, rows, cfg, pc, cols, df, peers, out, exc,
                 prev>>

\* app.py line 305
DcfCaption ==
  /\ app = "dcf_dash" /\ pc = "caption"
  /\ out' = Append(out, "caption")
  /\ pc' = "done"
  /\ UNCHANGED <<app, layout, rows, cfg, cols, df, peers, exc, res, prev,
                 probe>>

\* dcf_valuation.py main(), lines 71-106; a ValueError ends the run
DcfBatchValue ==
  /\ app = "dcf_batch" /\ pc = "start"
  /\ df' = build_fcf_table
  /\ \E v \in {dcf_valuation(FcfColumn(build_fcf_table), compute_wacc)} :
       /\ res' = [res EXCEPT !.wacc = compute_wacc, !.valuation = v]
       /\ exc' = IF v.ok THEN exc ELSE v.err
       /\ pc' = IF v.ok THEN "print" ELSE "failed"
  /\ UNCHANGED <<app, layout, rows, cfg, cols, peers, out, prev, probe>>

\* dcf_valuation.py main(), lines 108-111
DcfBatchPrint ==
  /\ app = "dcf_batch" /\ pc = "print"
  /\ out' = out \o <<"valuation_table", "wacc_used", "terminal_growth">>
  /\ pc' = "report"
  /\ UNCHANGED <<app, layout, rows, cfg, cols, df, peers, exc, res, prev,
                 probe>>

\* dcf_valuation.py main(), line 114: write_dcf_report
DcfBatchReport ==
  /\ app = "dcf_batch" /\ pc = "report"
  /\ out' = Append(out, "dcf_summary.txt")
  /\ pc' = "done"
  /\ UNCHANGED <<app, layout, rows, cfg, cols, df, peers, exc, res, prev,
                 probe>>

\* the arguments of a direct call of terminal_value
TvFcfLasts == {Num(100), Num(-50), Zero}
TvRates ==
  {Frac(9, 100), Frac(25, 1000), Frac(8, 100), Zero, Frac(-5, 100)}

\* a direct call of terminal_value, of both copies with the same arguments
DcfCallTerminalValue ==
  /\ app = "dcf_batch" /\ pc = "done" /\ probe.fn = ""
  /\ \E fcf_last \in TvFcfLasts, wacc \in TvRates, g \in TvRates :
       probe' = [fn |-> "terminal_value", fcf_last |-> fcf_last,
                 wacc |-> wacc, g |-> g,
                 app |-> app_terminal_value(fcf_last, wacc, g),
                 dcf |-> dcf_terminal_value(fcf_last, wacc, g)]
  /\ UNCHANGED <<app, layout, rows, cfg, pc, cols, df, peers, out, exc, res,
                 prev>>

NextDCF ==
  \/ DcfCompute
  \/ DcfForecast
  \/ DcfOutput
  \/ DcfCaption
  \/ DcfBatchValue
  \/ DcfBatchPrint
  \/ DcfBatchReport
  \/ DcfCallTerminalValue
  \/ DcfEvalSensitivity

SpecDCF == InitDCF /\ [][NextDCF]_vars

(***************************************************************************)
(* winsorize_series as a function of its series: applied once to a series  *)
(* drawn from SeriesUpTo(MaxLen), then again to its own result, both       *)
(* copies side by side.  rows is the series, cfg the bounds.               *)
(***************************************************************************)
MaxLen == 6

SeriesValues == {NaN, Zero, Num(10), Num(40)}
SeriesUpTo(len) == UNION {[1..k -> SeriesValues] : k \in 0..len}

NoWinsor == [fn |-> "", cm |-> <<>>, app |-> <<>>, cm2 |-> <<>>, app2 |-> <<>>]

InitWinsor ==
  /\ app = "winsorize_series"
  /\ rows \in SeriesUpTo(MaxLen)
  /\ \E pb \in PBounds :
       cfg = [target_name |-> "", winsorize |-> TRUE, p_low |-> pb[1],
              p_high |-> pb[2]]
  /\ layout = <<>>
  /\ pc = "start"
  /\ cols = <<>>
  /\ df = <<>>
  /\ peers = <<>>
  /\ out = <<>>
  /\ exc = ""
  /\ res = NoRes
  /\ prev = NoPrev
  /\ probe = NoWinsor

\* winsorize_series(s, p_low, p_high), both copies
WinsorizeOnce ==
  /\ app = "winsorize_series" /\ pc = "start"
  /\ probe' = [probe EXCEPT
                 !.fn = "winsorize_series",
                 !.cm = cm_winsorize_series(rows, cfg.p_low, cfg.p_high),
                 !.app = app_winsorize_series(rows, cfg.p_low, cfg.p_high)]
  /\ pc' = "once"
  /\ UNCHANGED <<app, layout, rows, cfg, cols, df, peers, out, exc, res,
                 prev>>

\* the same call on the series the first call returned
WinsorizeAgain ==
  /\ app = "winsorize_series" /\ pc = "once"
  /\ probe' = [probe EXCEPT
                 !.cm2 = cm_winsorize_series(probe.cm, cfg.p_low, cfg.p_high),
                 !.app2 = app_winsorize_series(probe.app, cfg.p_low,
                                               cfg.p_high)]
  /\ pc' = "twice"
  /\ UNCHANGED <<app, layout, rows, cfg, cols, df, peers, out, exc, res,
                 prev>>

NextWinsor ==
  \/ WinsorizeOnce
  \/ WinsorizeAgain

SpecWinsor == InitWinsor /\ [][NextWinsor]_vars

(***************************************************************************)
(* The four programs side by side: a behaviour is a run of one of the two  *)
(* dashboards or of one of the two batch scripts.                          *)
(***************************************************************************)
InitApps == Init \/ InitDCF

NextApps == Next \/ NextDCF

SpecApps == InitApps /\ [][NextApps]_vars

(***************************************************************************)
(* Claims                                                                  *)
(***************************************************************************)
\* zero, negative or missing
NonPositive(x) == IsNaN(x) \/ FLe(x, Zero)

\* the denominator of multiple m in a row r of the dashboard's frame
DashDenominator(r, m) ==
  CASE m = "EV / Revenue" -> r.revenue
    [] m = "EV / EBITDA" -> r.ebitda
    [] m = "P / E" -> r.net_income

\* the denominator of multiple m in a row r of compute_multiples' frame
CmDenominator(r, m) ==
  CASE m = "ev_rev" -> r.revenue_ltm_m
    [] m = "ev_ebitda" -> r.ebitda_ltm_m
    [] m = "pe" -> r.net_income_ltm_m

\* the frame of the run carries the multiples
DashHasMultiples == app = "dash" /\ pc \in {"left", "right", "done", "crashed"}
BatchHasMultiples == app = "batch" /\ Produced("file:peers_with_multiples.csv")

\* C1 (as stated): in the dashboard's frame and in compute_multiples' frame,
\* a multiple whose denominator is zero, negative or missing is "no value"
\* (NaN), and no multiple is infinite.
C1_NoValueForNonPositiveDenominator ==
  /\ DashHasMultiples =>
       \A i \in 1..Len(df) : \A m \in DOMAIN df[i].mult :
         /\ ~IsInf(df[i].mult[m])
         /\ NonPositive(DashDenominator(df[i], m)) => IsNaN(df[i].mult[m])
  /\ BatchHasMultiples =>
       \A i \in 1..Len(df) : \A m \in DOMAIN df[i].mult :
         /\ ~IsInf(df[i].mult[m])
         /\ NonPositive(CmDenominator(df[i], m)) => IsNaN(df[i].mult[m])

\* C1: a dashboard run whose frame holds a finite P/E computed from a
\* negative net income
C1_DashNegativeDenominator ==
  /\ DashHasMultiples
  /\ \E i \in 1..Len(df) :
       /\ FLt(df[i].net_income, Zero)
       /\ IsNum(df[i].mult["P / E"])

\* the target's rows in the dashboard's frame and in the batch script's
DashTarget == SelectRows(df, cfg.target_name, TRUE)
CmTarget == SelectTicker(df, "TGT", TRUE)

EvKinds == {"EV / Revenue", "EV / EBITDA"}
CmEvKinds == {"ev_rev", "ev_ebitda"}

\* C2 (as stated): the dashboard's implied_equity, implied_valuation and
\* valuation_range return an implied value for an EV multiple only when the
\* target's base metric is strictly positive; otherwise they fail.
C2_ImpliedOnlyForPositiveBase ==
  /\ (app = "dash" /\ Produced("implied_table")) =>
       \A m \in EvKinds : FGt(DashDenominator(DashTarget[1], m), Zero)
  /\ (probe.fn = "implied_equity" /\ probe.kind \in EvKinds /\ probe.eq.ok) =>
       FGt(DashDenominator(DashTarget[1], probe.kind), Zero)
  /\ (res.valuation.ok \/ res.vr.ok) => FGt(CmTarget[1].ebitda_ltm_m, Zero)
  /\ (probe.iv.ok \/ probe.vr.ok) =>
       FGt(CmDenominator(CmTarget[1], probe.kind), Zero)

\* C2: a direct call of the dashboard's implied_equity for an EV multiple
\* that returned a number though the target's base metric is not positive
C2_DashValueOffNonPositiveBase ==
  /\ probe.fn = "implied_equity" /\ probe.kind \in EvKinds
  /\ probe.eq.ok /\ IsNum(probe.eq.val)
  /\ NonPositive(DashDenominator(DashTarget[1], probe.kind))

\* a multiple column of the dashboard's peers without a non-missing entry
EmptyPeerColumn(m) == DropNa(Column(peers, m)) = <<>>

\* C8 (as stated): when a multiple column holds no non-missing peer value,
\* stats() returns the zero-count record alone, and the dashboard run goes
\* through its summary text, its statistics table and the target's implied
\* valuation without failing.
C8_ZeroCountHandled ==
  (app = "dash" /\ pc \in {"left", "right", "done", "crashed"}) =>
    \A j \in 1..Len(MULTIPLES) :
      EmptyPeerColumn(MULTIPLES[j]) =>
        /\ PeerStats[j] = [n |-> 0]
        /\ pc # "crashed"

\* C8: a dashboard run that ended in the summary text with a KeyError, one
\* peer column being empty
C8_SummaryKeyError ==
  /\ app = "dash" /\ pc = "crashed" /\ exc = "KeyError: 'median'"
  /\ \E j \in 1..Len(MULTIPLES) : EmptyPeerColumn(MULTIPLES[j])
  /\ peers # <<>>
  /\ ~Produced("download_summary") /\ ~Produced("stats_table")

\* the steps of a run past the validation of its input
LaterSteps ==
  {"peers_table", "download_csv", "download_summary", "stats_table",
   "st.info", "implied_table", "file:peers_with_multiples.csv",
   "print:summary", "print:valuation", "print:range",
   "file:comps_summary.txt"}

\* the run ended on its schema check, a required column missing
SchemaStopped ==
  \/ app = "dash" /\ pc = "stopped"
  \/ app = "batch" /\ pc = "failed" /\ res.error.missing # <<>>

\* C10 (as stated): a run whose header lacks a required column after alias
\* resolution ends with an error that lists the missing columns and the
\* columns found, and none of its later steps executes; in the dashboard and
\* in the batch script.
C10_SchemaErrorListsMissingAndFound ==
  /\ SchemaStopped =>
       /\ res.error.missing # <<>>
       /\ res.error.found = ColNames(cols)
       /\ df = <<>> /\ peers = <<>>
       /\ \A j \in 1..Len(out) : out[j] \notin LaterSteps
  /\ (pc \notin {"start", "stopped"} /\ ~SchemaStopped) =>
       /\ app = "dash" => Missing(REQUIRED_COLS, SeqToSet(ColNames(cols))) = <<>>
       /\ app = "batch" /\ res.error.text = "" =>
            Missing(CM_REQUIRED_COLS, SeqToSet(ColNames(cols))) = <<>>

\* C10: a batch run stopped by validate_schema with a missing column, its
\* error naming no column found
C10_BatchErrorWithoutFound ==
  /\ app = "batch" /\ pc = "failed" /\ res.error.missing = <<"ebitda_ltm_m">>
  /\ res.error.found = <<>>
  /\ out = <<>>

\* C5: once the target row's financials are changed and the program runs
\* again, what it computes from the peers is what it computed before: the
\* dashboard's peer set with its (winsorized) multiples, its stats() results
\* in the summary text and the statistics table, peer_summary's record, the
\* median implied_valuation applies and the quartiles valuation_range applies.
C5_PeerStatisticsIgnoreTarget ==
  prev.set =>
    /\ (app = "dash" /\ pc \in {"left", "right", "done", "crashed"}) =>
         peers = prev.peers
    /\ Produced("download_summary") => res.summary_txt = prev.summary_txt
    /\ Produced("stats_table") => res.stats_df = prev.stats_df
    /\ Produced("print:summary") => res.summary = prev.summary
    /\ (res.valuation.ok /\ ~IsNaN(prev.multiple_used)) =>
         res.valuation.val.multiple_used = prev.multiple_used
    /\ (res.vr.ok /\ ~IsNaN(prev.multiples["p50"])) =>
         res.vr.val.multiples = prev.multiples

\* C5: a batch run over three rows after a change of the target row, both
\* runs having reached the winsorized valuation range
C5_RerunAfterTargetChange ==
  /\ prev.set /\ app = "batch" /\ pc = "done" /\ Len(df) = 3
  /\ res.vr.ok /\ ~IsNaN(prev.multiples["p50"])
  /\ res.valuation.ok /\ ~IsNaN(prev.multiple_used)
  /\ res.summary.n_peers = 2

\* (market_cap + net_debt) / base
OwnEvMultiple(market_cap, net_debt, base) ==
  FDiv(FAdd(market_cap, net_debt), base)

\* the direct call of implied_equity applied the target's own multiple of
\* the kind called with
DashOwnMultipleApplied(t) ==
  /\ probe.fn = "implied_equity"
  /\ \/ /\ probe.kind \in EvKinds
        /\ FGt(DashDenominator(t, probe.kind), Zero)
        /\ FEq(probe.arg, OwnEvMultiple(t.market_cap, t.net_debt,
                                        DashDenominator(t, probe.kind)))
     \/ /\ probe.kind = "P / E"
        /\ FEq(probe.arg, FDiv(t.market_cap, t.net_income))

\* implied_valuation returned v for the target row t, the peer median it
\* applied being the target's own multiple
CmOwnMultipleApplied(v, t) ==
  /\ v.ok
  /\ FEq(v.val.multiple_used,
         OwnEvMultiple(t.market_cap_m, t.net_debt_m, v.val.base_value_m))

\* C6 (as stated): when the multiple applied is the target's own multiple,
\* the implied equity is the target's market cap, and implied_valuation's
\* upside is 0.
C6_RoundTripWithZeroUpside ==
  /\ (probe.fn = "implied_equity" /\ DashOwnMultipleApplied(DashTarget[1])) =>
       FEq(probe.eq.val, DashTarget[1].market_cap)
  /\ \A v \in {res.valuation, probe.iv} :
       (v.ok /\ CmOwnMultipleApplied(v, CmTarget[1])) =>
         /\ FEq(v.val.equity_implied_m, CmTarget[1].market_cap_m)
         /\ FEq(v.val.upside_pct, Zero)

\* C6 (amended): when the multiple applied is the target's own multiple,
\* the implied equity is the target's market cap; implied_valuation's upside
\* is 0 when that market cap is positive and undefined (NaN) when it is not.
C6_RoundTrip ==
  /\ (probe.fn = "implied_equity" /\ DashOwnMultipleApplied(DashTarget[1])) =>
       FEq(probe.eq.val, DashTarget[1].market_cap)
  /\ \A v \in {res.valuation, probe.iv} :
       (v.ok /\ CmOwnMultipleApplied(v, CmTarget[1])) =>
         /\ FEq(v.val.equity_implied_m, CmTarget[1].market_cap_m)
         /\ IF FGt(CmTarget[1].market_cap_m, Zero)
            THEN FEq(v.val.upside_pct, Zero)
            ELSE IsNaN(v.val.upside_pct)

\* C6: implied_valuation called for EV/Revenue on a target with market cap
\* 0 whose own multiple is the peer median: equity 0, upside undefined
C6_RoundTripAtZeroMarketCap ==
  /\ probe.fn = "implied_valuation" /\ probe.kind = "ev_rev"
  /\ CmOwnMultipleApplied(probe.iv, CmTarget[1])
  /\ CmTarget[1].market_cap_m = Zero
  /\ probe.iv.val.equity_implied_m = Zero
  /\ IsNaN(probe.iv.val.upside_pct)

UnsupportedDash == "ValueError: Unsupported multiple"
UnsupportedCm ==
  "ValueError: multiple_col must be one of: 'ev_ebitda', 'ev_rev'"

\* what the dashboard's solver owes for kind, multiple mv and target row t
DashDispatch(kind, mv, t, r) ==
  IF kind \in EvKinds
  THEN r.ok /\ Same(r.val, FSub(FMul(mv, DashDenominator(t, kind)),
                                t.net_debt))
  ELSE IF kind = "P / E"
  THEN r.ok /\ Same(r.val, FMul(mv, t.net_income))
  ELSE ~r.ok /\ r.err = UnsupportedDash

\* implied_valuation's result v for an EV kind: if a value is returned,
\* implied EV is multiple x base and implied equity is implied EV - net debt
CmEvDispatch(v, t) ==
  v.ok =>
    /\ Same(v.val.ev_implied_m, FMul(v.val.multiple_used, v.val.base_value_m))
    /\ Same(v.val.equity_implied_m, FSub(v.val.ev_implied_m, t.net_debt_m))

\* C9 (as stated): the solvers dispatch on a closed set of kinds: EV/Revenue
\* and EV/EBITDA give multiple x base less net debt, P/E gives multiple x net
\* income, and any other kind fails with the unsupported-multiple error
\* whatever the dataset holds.
C9_ClosedDispatch ==
  /\ probe.fn = "implied_equity" =>
       DashDispatch(probe.kind, probe.arg, DashTarget[1], probe.eq)
  /\ probe.fn = "implied_valuation" =>
       IF probe.kind \in CmEvKinds THEN CmEvDispatch(probe.iv, CmTarget[1])
       ELSE IF probe.kind = "pe"
       THEN /\ probe.iv.ok
            /\ Same(probe.iv.val.equity_implied_m,
                    FMul(probe.iv.val.multiple_used,
                         CmTarget[1].net_income_ltm_m))
       ELSE ~probe.iv.ok /\ probe.iv.err = UnsupportedCm

\* the error of a failed call v is the unsupported-multiple error exactly
\* when `reached`: the call got as far as its dispatch
UnsupportedIff(v, reached) ==
  /\ ~v.ok
  /\ v.err = UnsupportedCm <=> reached

\* C9 (amended): the dashboard's implied_equity dispatches as stated.
\* implied_valuation and valuation_range know the two EV kinds only: for
\* these a returned value is multiple x base less net debt; for P/E and any
\* other kind they return nothing and fail, with the unsupported-multiple
\* error only if the call gets to the dispatch (the target is in the frame
\* and, in implied_valuation, the kind is a column whose peer median is a
\* number), and otherwise with the error met before it.
C9_DispatchPerSolver ==
  /\ probe.fn = "implied_equity" =>
       DashDispatch(probe.kind, probe.arg, DashTarget[1], probe.eq)
  /\ probe.fn = "implied_valuation" =>
       IF probe.kind \in CmEvKinds THEN CmEvDispatch(probe.iv, CmTarget[1])
       ELSE UnsupportedIff(probe.iv,
              /\ CmTarget # <<>>
              /\ probe.kind \in {"ev_rev", "ev_ebitda", "pe"}
              /\ ~IsNaN(Median(Column(cm_peers(df, "TGT"), probe.kind))))
  /\ probe.fn = "valuation_range" =>
       IF probe.kind \in CmEvKinds
       THEN probe.vr.ok =>
              \A q \in Quartiles :
                Same(probe.vr.val.implied_equity_m[q],
                     FSub(FMul(probe.vr.val.multiples[q],
                               probe.vr.val.base_value_m),
                          CmTarget[1].net_debt_m))
       ELSE UnsupportedIff(probe.vr, CmTarget # <<>>)

\* C9: implied_valuation called with a kind that is no column of the frame,
\* the target being in the frame: it fails with a KeyError
C9_UnknownKindKeyError ==
  /\ probe.fn = "implied_valuation" /\ probe.kind = "ev_sales"
  /\ CmTarget # <<>>
  /\ ~probe.iv.ok /\ probe.iv.err = "KeyError"

(***************************************************************************)
(* C3, under SpecDCF                                                       *)
(***************************************************************************)
TerminalValueCalled == probe.fn = "terminal_value"

\* what a successful call returns, read backwards: v * (wacc - g) is
\* fcf_last * (1 + g)
IsGordonValue(v, fcf_last, wacc, g) ==
  /\ IsNum(v)
  /\ FEq(FMul(v, FSub(wacc, g)), FMul(fcf_last, FAdd(Num(1), g)))

TerminalValueContract(r, fcf_last, wacc, g) ==
  /\ FLe(wacc, g) => ~r.ok /\ r.err = WaccNotAboveG /\ IsNaN(r.val)
  /\ FGt(wacc, g) => r.ok /\ r.err = "" /\ IsGordonValue(r.val, fcf_last, wacc, g)
  /\ (FEq(wacc, Frac(9, 100)) /\ FEq(g, Frac(25, 1000)) /\ fcf_last.s = 1)
       => r.ok /\ IsNum(r.val) /\ r.val.s = 1

\* C3: a call of terminal_value with wacc <= g, wacc = g included, raises
\* the ValueError and returns no number; a call with wacc > g returns
\* fcf_last * (1 + g) / (wacc - g) without an error, a finite positive number
\* for wacc = 0.09, g = 0.025 and a positive fcf_last; the copy in
\* 02_dcf/app.py and the copy in dcf_valuation.py give the same outcome.
C3_TerminalValueGuard ==
  TerminalValueCalled =>
    /\ TerminalValueContract(probe.app, probe.fcf_last, probe.wacc, probe.g)
    /\ TerminalValueContract(probe.dcf, probe.fcf_last, probe.wacc, probe.g)
    /\ probe.app = probe.dcf

\* both copies have refused a call with wacc = g and a positive fcf_last
C3_RaisedAtEqualRates ==
  /\ TerminalValueCalled
  /\ FEq(probe.wacc, probe.g)
  /\ probe.fcf_last.s = 1
  /\ ~probe.app.ok
  /\ ~probe.dcf.ok

(***************************************************************************)
(* C4, under SpecDCF                                                       *)
(***************************************************************************)
\* the grid of lines 278-296 has been evaluated over the values of a run
GridShown == app = "dcf_dash" /\ probe.fn = "sensitivity"

\* the offsets of the grid around the base rates
WaccOffsets ==
  <<Frac(-1, 100), Frac(-5, 1000), Zero, Frac(5, 1000), Frac(1, 100)>>
GOffsets == <<Frac(-5, 1000), Zero, Frac(5, 1000)>>

\* the present value at rate w of the flows fcfs[t..N] and of tv at N, as of
\* year t - 1
RECURSIVE PresentValue(_, _, _, _)
PresentValue(fcfs, t, w, tv) ==
  IF t > Len(fcfs) THEN tv
  ELSE FDiv(FAdd(fcfs[t], PresentValue(fcfs, t + 1, w, tv)),
            FAdd(Num(1), w))

\* sum FCF_t / (1+w)^t + [FCF_N (1+g) / (w-g)] / (1+w)^N - net_debt
EquityFormula(fcfs, w, g, net_debt) ==
  FSub(PresentValue(fcfs, 1, w,
                    FDiv(FMul(fcfs[Len(fcfs)], FAdd(Num(1), g)),
                         FSub(w, g))),
       net_debt)

CellAsClaimed(cell, fcfs, w, g, net_debt) ==
  IF FLe(w, g) THEN IsNaN(cell)
  ELSE IsNum(cell) /\ FEq(cell, EquityFormula(fcfs, w, g, net_debt))

WinsorizedTwice == pc = "twice"

SameSeries(a, b) ==
  /\ Len(a) = Len(b)
  /\ \A i \in 1..Len(a) : Same(a[i], b[i])

\* the position (n - 1) * pct / 100 of a quantile among n entries falls on
\* an entry
WholePosition(n, pct) == n = 0 \/ ((n - 1) * pct) % 100 = 0

\* C7 as stated: winsorizing the result again at the same p_low, p_high, the
\* thresholds recomputed from the series passed in, changes no entry.
C7_Idempotent ==
  WinsorizedTwice =>
    /\ SameSeries(probe.cm2, probe.cm)
    /\ SameSeries(probe.app2, probe.app)

\* C7: winsorizing the result again at the same p_low, p_high changes no
\* entry when both quantile positions (n - 1) * p_low and (n - 1) * p_high,
\* n the number of entries that are not missing, are whole, so that the
\* thresholds are entries of the series; both copies return the same series.
C7_IdempotentAtWholePositions ==
  WinsorizedTwice =>
    /\ SameSeries(probe.cm, probe.app)
    /\ SameSeries(probe.cm2, probe.app2)
    /\ (WholePosition(Len(DropNa(rows)), cfg.p_low)
        /\ WholePosition(Len(DropNa(rows)), cfg.p_high))
         => SameSeries(probe.cm2, probe.cm)

\* a series of six entries clipped at its 20% and 80% quantiles, the second
\* and the fifth entry in order, and left as it is by the second call
C7_ClippedOnceUnchangedTwice ==
  /\ WinsorizedTwice
  /\ Len(DropNa(rows)) = 6
  /\ cfg.p_low = 20 /\ cfg.p_high = 80
  /\ ~SameSeries(probe.cm, rows)
  /\ SameSeries(probe.cm2, probe.cm)

(***************************************************************************)
(* C11, under Spec                                                         *)
(***************************************************************************)
HeaderNormalized == app = "dash" /\ pc # "start"

\* the header names as the comparison sees them
TrimmedNames == {StripLower(layout[j].name) : j \in 1..Len(layout)}

\* the columns of the input whose trimmed lowercase name is `name`
ColumnsSpelled(name) ==
  {j \in 1..Len(layout) : StripLower(layout[j].name) = name}

\* the place in the alias list of the first alias present in the header
FirstPresent(variants) ==
  CHOOSE k \in 1..Len(variants) :
    /\ variants[k] \in TrimmedNames
    /\ \A h \in 1..(k - 1) : variants[h] \notin TrimmedNames

AliasResolved(canon, variants) ==
  (\E k \in 1..Len(variants) : variants[k] \in TrimmedNames) =>
    /\ Cardinality(ColumnsSpelled(variants[FirstPresent(variants)])) = 1
    /\ \A j \in ColumnsSpelled(variants[FirstPresent(variants)]) :
         cols[j].name = canon
    /\ \A k \in 1..Len(variants) :
         \A j \in ColumnsSpelled(variants[k]) :
           k # FirstPresent(variants) => cols[j].name = variants[k]
    /\ ColumnCount(cols, canon) <= 1

\* C11: for every canonical name with an alias in the header (names
\* compared trimmed and in lower case), exactly one column, the one of the
\* first alias of the alias list that is present, is renamed to the
\* canonical name, the columns of the other aliases keep their names, and no
\* two columns of the result carry the same canonical name.
C11_FirstAliasWins ==
  HeaderNormalized =>
    /\ Len(cols) = Len(layout)
    /\ \A i \in 1..Len(ALIAS_KEYS) :
         AliasResolved(ALIAS_KEYS[i], COLUMN_ALIASES[ALIAS_KEYS[i]])

\* a header with "Sales" and "sales" normalized: two columns named revenue
C11_TwoRevenueColumns ==
  /\ HeaderNormalized
  /\ ColumnCount(layout, "Sales") = 1
  /\ ColumnCount(layout, "sales") = 1
  /\ ColumnCount(cols, "revenue") = 2

(***************************************************************************)
(* C12, under Spec                                                         *)
(***************************************************************************)
AllAliases ==
  UNION {SeqToSet(COLUMN_ALIASES[ALIAS_KEYS[i]]) : i \in 1..Len(ALIAS_KEYS)}

\* the columns of the input that match no alias
Unmapped == {j \in 1..Len(layout) : StripLower(layout[j].name) \notin AllAliases}

\* C12: a column of the input that matches no alias has, in the normalized
\* table, the name it had in the input, casing and surrounding whitespace
\* included, at the same position and over the same values.
C12_UnmappedUnchanged ==
  HeaderNormalized =>
    /\ Len(cols) = Len(layout)
    /\ \A j \in Unmapped : cols[j] = layout[j]

\* the unmapped column "Region " of the input is "region" after normalization
C12_UnmappedRenamed ==
  /\ HeaderNormalized
  /\ \E j \in Unmapped :
       /\ layout[j].name = "Region "
       /\ cols[j].name = "region"
       /\ cols[j].field = layout[j].field

(***************************************************************************)
(* C13, under SpecApps                                                     *)
(***************************************************************************)
\* the DCF dashboard has come to its valuation with WACC <= terminal growth
DcfValueError ==
  /\ app = "dcf_dash" /\ pc \notin {"start", "col1", "col2"}
  /\ FLe(res.wacc, cfg.terminal_g)

\* the comps dashboard has come to the target's implied valuation and the
\* target is not in the dataset
TargetNotFound ==
  /\ app = "dash" /\ Produced("stats_table")
  /\ DashTarget = <<>>

\* the comps dashboard has come to the target's implied valuation and the
\* base metric of one of the target's EV multiples is missing or not positive
InvalidBase ==
  /\ app = "dash" /\ Produced("stats_table") /\ pc = "done"
  /\ DashTarget # <<>>
  /\ \E m \in EvKinds : NonPositive(DashDenominator(DashTarget[1], m))

MessageSurfaced == Produced("st.error") \/ Produced("st.info")

\* C13: in both dashboards a value error (WACC <= terminal growth, target
\* not found, invalid base metric) ends only the computation it arose in:
\* the run shows a message, goes on to its end without an uncaught
\* exception, and the FCF table, respectively the peer table, computed
\* before it is on the page.
C13_ValueErrorSurfaced ==
  /\ DcfValueError =>
       /\ MessageSurfaced /\ Produced("fcf_table")
       /\ pc \in {"caption", "done"}
       /\ pc = "caption" => ENABLED DcfCaption
  /\ (TargetNotFound \/ InvalidBase) =>
       /\ MessageSurfaced /\ Produced("peers_table")
       /\ pc = "done"

\* C13: a run of the comps dashboard that printed the implied-equity table
\* for a target whose base metric is invalid, and showed no message
C13_InvalidBaseNoMessage ==
  /\ InvalidBase
  /\ Produced("implied_table")
  /\ ~MessageSurfaced
(***************************************************************************)
(* C14, under SpecDCF                                                      *)
(***************************************************************************)
\* the WACC of wacc.py over its CAPM and capital-structure inputs, at the
\* tax rate tax
WaccAt(tax) ==
  FAdd(FMul(WEIGHT_EQUITY, FAdd(RISK_FREE_RATE, FMul(BETA, EQUITY_RISK_PREMIUM))),
       FMul(WEIGHT_DEBT, FMul(COST_OF_DEBT, FSub(Num(1), tax))))

\* the DCF dashboard has computed its table and its WACC from the model
ModelWaccComputed ==
  app = "dcf_dash" /\ pc # "start" /\ cfg.use_model_wacc

\* the tax rate of the run's FCF projection: NOPAT = EBIT * (1 - tax)
NopatAt(tax) ==
  \A t \in 1..Len(df) : Same(df[t].NOPAT, FMul(df[t].EBIT, FSub(Num(1), tax)))

\* C14: in a run of the DCF dashboard that takes its WACC from the model,
\* the tax rate of the after-tax cost of debt inside the WACC is the tax
\* rate of the sidebar, the one NOPAT of the FCF projection is computed at.
C14_OneTaxRate ==
  ModelWaccComputed =>
    /\ NopatAt(cfg.tax_rate)
    /\ Same(res.wacc, WaccAt(cfg.tax_rate))

\* C14: a run with the tax rate overridden to 20 %: NOPAT is at 20 %, the
\* WACC still at the 28 % of assumptions.py
C14_WaccAtModuleTaxRate ==
  /\ ModelWaccComputed
  /\ cfg.tax_rate = Frac(20, 100)
  /\ NopatAt(Frac(20, 100))
  /\ Same(res.wacc, WaccAt(TAX_RATE))
  /\ ~Same(res.wacc, WaccAt(cfg.tax_rate))
(***************************************************************************)
(* C15, under SpecDCF                                                      *)
(***************************************************************************)
\* x discounted at rate w over t whole periods
RECURSIVE Discounted(_, _, _)
Discounted(x, w, t) ==
  IF t = 0 THEN x ELSE Discounted(FDiv(x, FAdd(Num(1), w)), w, t - 1)

\* sum over t = from..N of FCF_t / (1 + w)^t
RECURSIVE PvExplicit(_, _, _)
PvExplicit(fcfs, w, from) ==
  IF from > Len(fcfs) THEN Zero
  ELSE FAdd(Discounted(fcfs[from], w, from), PvExplicit(fcfs, w, from + 1))

\* [FCF_N (1 + g) / (w - g)] / (1 + w)^N
PvTerminal(fcfs, w, g) ==
  Discounted(FDiv(FMul(fcfs[Len(fcfs)], FAdd(Num(1), g)), FSub(w, g)), w,
             Len(fcfs))

\* a run of either DCF program that has valued its schedule
Valued ==
  /\ app \in {"dcf_dash", "dcf_batch"}
  /\ pc \notin {"start", "col1", "col2"}
  /\ res.valuation.ok

FourValues(v, fcfs, w, g, net_debt) ==
  /\ FEq(v.pv_fcfs, PvExplicit(fcfs, w, 1))
  /\ FEq(v.pv_tv, PvTerminal(fcfs, w, g))
  /\ FEq(v.ev, FAdd(PvExplicit(fcfs, w, 1), PvTerminal(fcfs, w, g)))
  /\ FEq(v.eq, FSub(v.ev, net_debt))

\* C15: for an FCF schedule of N >= 1 years, WACC > g and a net debt, the
\* valuation of the dashboard and of the batch script is PV_explicit = sum
\* of FCF_t / (1 + WACC)^t over t = 1..N, the first flow discounted by one
\* whole period, PV_TV = [FCF_N (1 + g) / (WACC - g)] / (1 + WACC)^N, EV =
\* PV_explicit + PV_TV and Equity = EV - NetDebt; on the same schedule, WACC,
\* g and net debt the two programs give the same four values.
C15_ValuationIdentity ==
  Valued =>
    /\ Len(df) >= 1
    /\ FGt(res.wacc, cfg.terminal_g)
    /\ FourValues(res.valuation.val, FcfColumn(df), res.wacc, cfg.terminal_g,
                  cfg.net_debt)
    /\ (cfg.terminal_g = TERMINAL_GROWTH /\ cfg.net_debt = NET_DEBT) =>
         /\ res.valuation = dcf_valuation(FcfColumn(df), res.wacc)
         /\ res.valuation = app_valuation(FcfColumn(df), res.wacc,
                                          cfg.terminal_g, cfg.net_debt)

\* a dashboard run at the manual WACC over a shrinking revenue, at the
\* terminal growth and net debt of the batch script, with its four values
C15_DashboardValuedAsBatch ==
  /\ Valued /\ app = "dcf_dash"
  /\ ~cfg.use_model_wacc
  /\ cfg.revenue_growth # REVENUE_GROWTH
  /\ cfg.terminal_g = TERMINAL_GROWTH /\ cfg.net_debt = NET_DEBT
  /\ IsNum(res.valuation.val.pv_fcfs) /\ IsNum(res.valuation.val.pv_tv)
  /\ ~FEq(res.valuation.val.ev, res.valuation.val.eq)
(***************************************************************************)
(* C16, under SpecDCF                                                      *)
(***************************************************************************)
\* x grown at rate g over t whole years
RECURSIVE Grown(_, _, _)
Grown(x, g, t) ==
  IF t = 0 THEN x ELSE FMul(Grown(x, g, t - 1), FAdd(Num(1), g))

\* a run of either DCF program that has built its FCF table; the batch
\* script builds it from assumptions.py, which is the untouched sidebar
TableBuilt == app \in {"dcf_dash", "dcf_batch"} /\ pc # "start"

RowAsClaimed(row, t, c) ==
  /\ row.Year = t
  /\ FEq(row.Revenue, Grown(c.revenue_0, c.revenue_growth, t))
  /\ FEq(row.EBIT, FMul(row.Revenue, c.ebit_margin))
  /\ FEq(row.NOPAT, FMul(row.EBIT, FSub(Num(1), c.tax_rate)))
  /\ FEq(row.DA, FMul(row.Revenue, c.da_pct))
  /\ FEq(row.CAPEX, FMul(row.Revenue, c.capex_pct))
  /\ FEq(row.dNWC,
         FMul(c.nwc_pct,
              FSub(row.Revenue, Grown(c.revenue_0, c.revenue_growth, t - 1))))
  /\ FEq(row.FCF, FSub(FSub(FAdd(row.NOPAT, row.DA), row.CAPEX), row.dNWC))

\* C16: build_fcf_table returns N rows, years 1..N in order, with Revenue_t
\* = Revenue_0 (1 + growth)^t, EBIT_t = Revenue_t * margin, NOPAT_t = EBIT_t
\* (1 - tax), D&A_t = Revenue_t * da_pct, Capex_t = Revenue_t * capex_pct,
\* dNWC_t = nwc_pct (Revenue_t - Revenue_{t-1}) with Revenue_0 before year
\* 1, and FCF_t = NOPAT_t + D&A_t - Capex_t - dNWC_t; at the defaults year
\* 1 has Revenue 5200, EBIT 1040 and NOPAT 748.8, and the dashboard's
\* build_fcf_table called with the defaults returns the table of
\* fcf_build.py.
C16_FcfTable ==
  /\ TableBuilt =>
       /\ Len(df) = cfg.n_years
       /\ \A t \in 1..Len(df) : RowAsClaimed(df[t], t, cfg)
  /\ (TableBuilt /\ app = "dcf_batch") => df = build_fcf_table
  /\ (TableBuilt /\ cfg \in DcfUntouched) =>
       /\ Len(df) = N_YEARS
       /\ FEq(df[1].Revenue, Num(5200))
       /\ FEq(df[1].EBIT, Num(1040))
       /\ FEq(df[1].NOPAT, Frac(7488, 10))
       /\ df = build_fcf_table

\* the dashboard, its sidebar untouched, shows the table of fcf_build.py
C16_DashboardAtDefaults ==
  /\ TableBuilt /\ app = "dcf_dash"
  /\ cfg \in DcfUntouched
  /\ Len(df) = N_YEARS
  /\ df = build_fcf_table
  /\ FGt(df[1].dNWC, Zero)
(***************************************************************************)
(* C17, under SpecDCF                                                      *)
(***************************************************************************)
\* a run of either DCF program that has taken its WACC from compute_wacc()
WaccFromModel ==
  /\ pc # "start"
  /\ \/ app = "dcf_batch"
     \/ app = "dcf_dash" /\ cfg.use_model_wacc

\* C17: compute_wacc() returns w_e (rf + beta * premium) + w_d * cost of
\* debt * (1 - tax) over the values of assumptions.py and raises nothing;
\* with the shipped values cost_of_equity() is 0.0855,
\* after_tax_cost_of_debt() 0.0288 and the WACC 0.06849.
C17_WaccFormula ==
  WaccFromModel =>
    /\ IsNum(res.wacc)
    /\ FEq(res.wacc,
           FAdd(FMul(WEIGHT_EQUITY,
                     FAdd(RISK_FREE_RATE, FMul(BETA, EQUITY_RISK_PREMIUM))),
                FMul(FMul(WEIGHT_DEBT, COST_OF_DEBT), FSub(Num(1), TAX_RATE))))
    /\ FEq(cost_of_equity, Frac(855, 10000))
    /\ FEq(after_tax_cost_of_debt, Frac(288, 10000))
    /\ FEq(res.wacc, Frac(6849, 100000))
    /\ pc \in {"col1", "col2"} => exc = ""

\* the batch script has ended with the WACC of the model, above the
\* after-tax cost of debt and below the cost of equity
C17_BatchAtModelWacc ==
  /\ WaccFromModel /\ app = "dcf_batch" /\ pc = "done"
  /\ FGt(res.wacc, after_tax_cost_of_debt)
  /\ FLt(res.wacc, cost_of_equity)
(***************************************************************************)
(* C18, under SpecDCF                                                      *)
(***************************************************************************)
\* the dashboard is through its DCF output block with WACC above g
OutputBlockDone ==
  /\ app = "dcf_dash" /\ pc \in {"caption", "done"}
  /\ FGt(res.wacc, cfg.terminal_g)

\* the places in out where what stands
Places(what) == {j \in 1..Len(out) : out[j] = what}

\* a stands in out, and b after it
InOrder(a, b) == \E i \in Places(a) : \E j \in Places(b) : i < j

\* C18: in a run of the DCF dashboard with WACC above the terminal growth
\* the steps of the output block all execute, in their order and with no
\* error reported: valuation table, report download, Excel export,
\* waterfall and, the option checked, the sensitivity grid; and the Excel
\* export of a run that produced a grid holds it as its Sensitivity table.
C18_OutputBlockCompletes ==
  OutputBlockDone =>
    /\ exc = "" /\ ~Produced("st.error")
    /\ InOrder("valuation_table", "download_report")
    /\ InOrder("download_report", "download_excel")
    /\ InOrder("download_excel", "waterfall")
    /\ cfg.show_sensi => InOrder("waterfall", "sensitivity_table")
    /\ Produced("sensitivity_table") => res.sensi_for_export = "sensi"

\* C18: a run with WACC above g that ended on the AttributeError of line
\* 245: the report download is on the page, the error message after it, the
\* Excel export and the waterfall are not
C18_AbortedBeforeExcel ==
  /\ OutputBlockDone /\ pc = "done"
  /\ exc = NoneHasNoCopy
  /\ InOrder("download_report", "st.error")
  /\ ~Produced("download_excel")
  /\ ~Produced("waterfall")
  /\ ~Produced("sensitivity_table")
(***************************************************************************)
(* C19, under Spec                                                         *)
(***************************************************************************)
\* the P50 of a range and a single-point valuation are the same three values
SamePoint(vr, iv) ==
  /\ vr.winsorized
  /\ FEq(vr.multiples["p50"], iv.multiple_used)
  /\ FEq(vr.implied_ev_m["p50"], iv.ev_implied_m)
  /\ FEq(vr.implied_equity_m["p50"], iv.equity_implied_m)

\* the peers' multiples of kind m that are there
PeerMultiples(m) == DropNa([i \in 1..Len(SelectTicker(df, "TGT", FALSE)) |-> SelectTicker(df, "TGT", FALSE)[i].mult[m]])

\* C19: on a dataset where both succeed, valuation_range winsorized at the
\* default bounds 0.05 and 0.95 reports as its P50 multiple, implied EV and
\* implied equity the multiple_used, ev_implied_m and equity_implied_m of
\* implied_valuation for the same target and multiple column.
C19_WinsorizedMedian ==
  /\ (app = "batch" /\ res.valuation.ok /\ res.vr.ok) =>
       SamePoint(res.vr.val, res.valuation.val)
  /\ (probe.fn = "valuation_range" /\ probe.vr.ok) =>
       \A iv \in {implied_valuation(df, "TGT", probe.kind)} :
         iv.ok => SamePoint(probe.vr.val, iv.val)

\* a run of main() over two peers of different EV / EBITDA, both moved by
\* the winsorization, that printed the single-point and the range valuation
C19_BothPeersClipped ==
  /\ app = "batch" /\ pc = "done"
  /\ res.valuation.ok /\ res.vr.ok
  /\ Len(PeerMultiples("ev_ebitda")) = 2
  /\ \A i \in 1..2 :
       /\ FLt(Quantile(PeerMultiples("ev_ebitda"), 0), res.vr.val.multiples["p25"])
       /\ ~FEq(PeerMultiples("ev_ebitda")[i], res.vr.val.multiples["p50"])
(***************************************************************************)
(* C20, under Spec                                                         *)
(***************************************************************************)
PeersCsv == "file:peers_with_multiples.csv"
Report == "file:comps_summary.txt"

\* validate_schema has raised in this run of main()
SchemaRaised == app = "batch" /\ res.error.text # ""

\* something has raised in this run of main()
BatchRaised == app = "batch" /\ exc # ""

ArtifactsInOrder ==
  /\ SchemaRaised => ~Produced(PeersCsv) /\ ~Produced(Report)
  /\ BatchRaised => pc = "failed" /\ ~Produced(Report)
  /\ (app = "batch" /\ Produced(Report)) =>
       /\ res.valuation.ok /\ res.vr.ok
       /\ InOrder(PeersCsv, "print:summary")
       /\ InOrder("print:summary", "print:valuation")
       /\ InOrder("print:valuation", "print:range")
       /\ InOrder("print:range", Report)

\* a run that raised writes nothing more; the report is written by the
\* step after the range valuation
NothingAfterRaise ==
  /\ (BatchRaised /\ pc' # "start") => out' = out /\ pc' = "failed"
  /\ (app = "batch" /\ ~Produced(Report) /\ Produced(Report)') =>
       pc = "report" /\ res.valuation.ok /\ res.vr.ok

\* C20: in compute_multiples.main, when the schema validation raises,
\* neither the processed peers CSV nor the summary report is written; the
\* report is written only after the peer summary, the single-point
\* valuation and the range valuation have all succeeded, so a run in which
\* one of them raises ends without a report.
C20_ReportLast == []ArtifactsInOrder /\ [][NothingAfterRaise]_vars

\* a run of main() that wrote the processed CSV, printed the peer summary
\* and ended on the ValueError of implied_valuation, without a report
C20_FailedAfterCsv ==
  /\ BatchRaised /\ ~SchemaRaised
  /\ pc = "failed" /\ ~res.valuation.ok
  /\ InOrder(PeersCsv, "print:summary")
  /\ ~Produced(Report)
====
